---- MODULE Spec2Model ----
(***************************************************************************)
(* A model of the process and virtual-memory manager of the teaching       *)
(* kernel in src/pset4/kernel.c: the physical page allocator (pageinfo),   *)
(* the page-table copier, process set-up and fork, the interrupt           *)
(* dispatcher, the round-robin scheduler and the invariant checker.        *)
(*                                                                         *)
(* Physical memory is scaled down: the layout keeps the order of the       *)
(* regions of the original (null page, free low memory, kernel, I/O        *)
(* memory, four process regions) with a few pages each.  Addresses are     *)
(* byte addresses, page-table entries are numbers pa | perm as in the      *)
(* code.  The capacity of the process table and the size of physical       *)
(* memory are fixed at boot and kept in the variables nproc and npages.    *)
(***************************************************************************)
EXTENDS Integers, Sequences, FiniteSets, TLC

\* ---------------------------------------------------------------- constants

\* Page size: physical_page_alloc tests (addr & 0xFFF).
PAGESIZE == 4096

\* Entries per page table (x86.h); a level-1 entry covers
\* PAGESIZE * PAGETABLE_NENTRIES bytes of virtual memory.
PAGETABLE_NENTRIES == 1024

\* Page-table entry permission bits (x86.h).
PTE_P == 1

PTE_W == 2

PTE_U == 4

\* pageowner_t.
PO_FREE == 0

PO_RESERVED == -1

PO_KERNEL == -2

\* Capacity of the process table in the build (kernel.h), and the literal
\* the fork handler compares newpid with.
NPROC == 16

FORK_LAST_PID == 15

NULL == 0

\* Pages of a program image: process_setup maps 2 * PAGESIZE for it.
ProgramPages == 2

\* ------------------------------------------------------------------- bounds

\* Free page frames between the null page and the kernel (63 in the build).
LowPages == 12

\* Pages of one process region, PROC_SIZE / PAGESIZE (64 in the build).
ProcSizePages == 3

\* Virtual pages above the end of physical memory
\* (MEMSIZE_VIRTUAL - MEMSIZE_PHYSICAL, in pages).
VirtExtraPages == 2

\* Level-1 entries kept in the model (entry 0 maps all modelled addresses).
L1Entries == 2

\* Traps a run takes in a memory of the build's shape: fork system calls,
\* and traps of the other kinds.
MaxForks == 2

MaxTraps == 3

\* Traps other than fork a run takes in a memory in which the process table
\* fills up (the forks there are bounded by the table).
MaxTrapsFull == 0

\* A process-table capacity below the build's.
SmallProcs == 3

\* Calls of physical_page_alloc a run of its own specification makes.
MaxCalls == 2

\* Traps of each kind (fork, other) a run takes that starts before start()
\* has set up a process.
MaxBootTraps == 1

\* Page faults a run of the round-robin specification may take, and the width
\* of its timer counter.
MaxFaults == 2
TickWrap == 2

\* ------------------------------------------------------------------- layout

KERNEL_START_PN == 1 + LowPages

\* kernel_pagetable (level 1) and its level-2 table live in kernel data.
KERNEL_PT_PN == KERNEL_START_PN

KERNEL_PT2_PN == KERNEL_START_PN + 1

\* KERNEL_STACK_TOP - PAGESIZE
KERNEL_STACK_PN == KERNEL_START_PN + 2

\* The console page, inside reserved I/O memory.
CONSOLE_PN == KERNEL_START_PN + 3

PROC_START_PN == KERNEL_START_PN + 4

PROC_START_ADDR == PROC_START_PN * PAGESIZE

PROC_SIZE == ProcSizePages * PAGESIZE

kernel_pagetable == KERNEL_PT_PN * PAGESIZE

\* Physical memory of the build ends with the fourth process region.
BuildPages == PROC_START_PN + 4 * ProcSizePages

\* Frames a process takes: two page tables, its image, its stack.
FramesPerProc == 3 + ProgramPages

\* A memory in which NPROC - 1 processes fit.
FullPages == PROC_START_PN + (NPROC - 1) * FramesPerProc

VARIABLES
    nproc,      \* capacity of processes[] (NPROC of the build)
    npages,     \* PAGENUMBER(MEMSIZE_PHYSICAL), and NPAGES
    pageinfo,   \* pageinfo[pn] = [owner, refcount]
    mem,        \* contents of the frames that hold page tables
    processes,  \* processes[pid] = [p_state, p_pagetable, p_registers]
    current,    \* pid of the current process
    ticks,      \* timer interrupts so far
    kstate,     \* "user": a process runs; "idle": schedule() spins; "panic"
    quota,      \* traps the run may still take: [traps, forks]
    last,       \* reg_intno of the last trap ("boot" before the first)
    alloclog,   \* the allocator calls of the last trap, in order:
                \* [fn, owner, addr, r]
    owed,       \* history: owed[p] = the processes that have been runnable
                \* ever since schedule() last ran p and have not run since
    pong,       \* the threads and globals of the client in src/pset6/pong61.c
    io          \* an io61_file of src/pset2/io61.c and its file descriptor

vars == <<nproc, npages, pageinfo, mem, processes, current, ticks, kstate, quota,
          last, alloclog, owed, pong, io>>

\* The variables of the kernel.
kvars == <<nproc, npages, pageinfo, mem, processes, current, ticks, kstate, quota,
           last, alloclog, owed>>

\* ------------------------------------------------- the buffered file

\* Size of the buffer in the model (BUFSIZE is 8192 in io61.c).
BufBytes == 3

BUFSIZE == BufBytes

\* Calls of the library on one file in a run.
MaxIoCalls == 4

\* Sizes of one io61_write: up to one byte more than the buffer holds.
WriteSizes == 1 .. BUFSIZE + 1

\* The file as io61_fdopen returns it (cnt, towrite, seeked zero, bufptr at
\* buf; buf is not initialised, and no byte of it is read before it is
\* stored), with nothing delivered to the descriptor.  written is the data
\* the calls of io61_write reported as written, calls counts the calls,
\* failed says that a write() on the descriptor returned an error, and plain
\* says that no io61_flush was called, every write() was complete and no
\* io61_write was larger than the buffer.
IoFile ==
    [ state   |-> "open",
      cnt     |-> 0,
      towrite |-> 0,
      seeked  |-> 0,
      bufptr  |-> 0,
      buf     |-> [i \in 0 .. BUFSIZE - 1 |-> 0],
      out     |-> << >>,
      written |-> << >>,
      calls   |-> 0,
      failed  |-> FALSE,
      plain   |-> TRUE ]

\* No file opened.
IoOff == [IoFile EXCEPT !.state = "none"]

\* ------------------------------------------------- the client's threads

\* Worker threads main() creates in a run (its loop is unbounded).
MaxWorkers == 2

\* Times a worker may find its connection broken and retry.
MaxRetries == 1

\* Largest delay, in milliseconds, the server's "+N STOP" body asks for.
MaxStop == 1

Workers == 1 .. MaxWorkers

\* No thread: the value of a mutex nobody holds.
NoThread == 0 - 1

\* The main thread.
MainThread == 0

\* The globals as initialised (conn_done_num = 0, stop_time = 0, the mutexes
\* and condition variables after pthread_*_init) and no thread started.
PongOff ==
    [ main          |-> "off",
      pc            |-> [t \in Workers |-> "none"],
      body          |-> [t \in Workers |-> 0],
      retries       |-> [t \in Workers |-> 0],
      conn_done_num |-> 0,
      stop_time     |-> 0,
      time_lock     |-> NoThread,
      stop_waiters  |-> {},
      mutex         |-> NoThread,
      cond_waiters  |-> {} ]

MEMSIZE_PHYSICAL == npages * PAGESIZE

NVPAGES == npages + VirtExtraPages

MEMSIZE_VIRTUAL == NVPAGES * PAGESIZE

Frames == 0 .. (npages - 1)

VPages == 0 .. (NVPAGES - 1)

Pids == 0 .. (nproc - 1)

\* ------------------------------------------------------------ address maths

PAGENUMBER(a) == a \div PAGESIZE

PAGEADDRESS(pn) == pn * PAGESIZE

PTE_ADDR(e) == (e \div PAGESIZE) * PAGESIZE

PTE_FLAGS(e) == e % PAGESIZE

L1PAGEINDEX(va) == va \div (PAGESIZE * PAGETABLE_NENTRIES)

L2PAGEINDEX(va) == (va \div PAGESIZE) % PAGETABLE_NENTRIES

\* perm & bit, for a single bit
HasBit(perm, bit) == (perm \div bit) % 2 = 1

\* ------------------------------------------------- physical frame allocator

\* A kernel memory state m is a record [pageinfo, mem, log]; log is the
\* sequence of the allocator calls made so far in the trap.

\* A faulty scan: the loop runs downwards and stops at the highest free frame.
FirstFree_highest(pi) ==
    IF \E pn \in DOMAIN pi : pi[pn].refcount = 0
    THEN CHOOSE pn \in DOMAIN pi :
            /\ pi[pn].refcount = 0
            /\ \A q \in DOMAIN pi : q > pn => pi[q].refcount # 0
    ELSE npages

\* First frame with refcount 0 in increasing order, npages when there is none:
\* the value of pn after the scan loop.
FirstFree(pi) ==
    IF \E pn \in DOMAIN pi : pi[pn].refcount = 0
    THEN CHOOSE pn \in DOMAIN pi :
            /\ pi[pn].refcount = 0
            /\ \A q \in DOMAIN pi : q < pn => pi[q].refcount # 0
    ELSE npages

\* A faulty physical_page_alloc: it counts the reference and forgets the owner.
physical_page_alloc_keepowner(pi, addr, owner) ==
    IF \/ addr % PAGESIZE # 0
       \/ addr >= MEMSIZE_PHYSICAL
       \/ pi[PAGENUMBER(addr)].refcount # 0
    THEN [r |-> -1, pageinfo |-> pi]
    ELSE [r |-> 0, pageinfo |-> [pi EXCEPT ![PAGENUMBER(addr)].refcount = 1]]

\* A faulty physical_page_alloc: the alignment test is missing.
physical_page_alloc_unaligned(pi, addr, owner) ==
    IF \/ addr >= MEMSIZE_PHYSICAL
       \/ pi[PAGENUMBER(addr)].refcount # 0
    THEN [r |-> -1, pageinfo |-> pi]
    ELSE [r |-> 0,
          pageinfo |-> [pi EXCEPT ![PAGENUMBER(addr)] =
                            [owner |-> owner, refcount |-> 1]]]

\* physical_page_alloc(addr, owner): [r, pageinfo]
physical_page_alloc(pi, addr, owner) ==
    IF \/ addr % PAGESIZE # 0
       \/ addr >= MEMSIZE_PHYSICAL
       \/ pi[PAGENUMBER(addr)].refcount # 0
    THEN [r |-> -1, pageinfo |-> pi]
    ELSE [r |-> 0,
          pageinfo |-> [pi EXCEPT ![PAGENUMBER(addr)] =
                            [owner |-> owner, refcount |-> 1]]]

\* A faulty page_alloc_lite: the result of physical_page_alloc is not tested.
page_alloc_lite_unchecked(m, pid) ==
    LET pn == FirstFree(m.pageinfo)
        a  == physical_page_alloc(m.pageinfo, pn * PAGESIZE, pid)
        page == PAGEADDRESS(pn)
    IN  [page |-> page,
         m |-> [m EXCEPT !.pageinfo = a.pageinfo,
                         !.log = Append(@, [fn |-> "page_alloc_lite", owner |-> pid,
                                            addr |-> page,
                                            r |-> IF page # NULL THEN 0 ELSE -1])]]

\* page_alloc_lite(pid): [page, m]
page_alloc_lite(m, pid) ==
    LET pn == FirstFree(m.pageinfo)
        a  == physical_page_alloc(m.pageinfo, pn * PAGESIZE, pid)
        page == IF a.r >= 0 THEN PAGEADDRESS(pn) ELSE NULL
    IN  [page |-> page,
         m |-> [m EXCEPT !.pageinfo = a.pageinfo,
                         !.log = Append(@, [fn |-> "page_alloc_lite", owner |-> pid,
                                            addr |-> page,
                                            r |-> IF page # NULL THEN 0 ELSE -1])]]

\* ------------------------------------------------------------- page tables

\* The level-2 table a level-1 table names for va, NULL when the level-1
\* entry is absent or the level-1 frame holds no table.
L2TableOf(m, pagetable, va) ==
    LET f == PAGENUMBER(pagetable) IN
    IF f \in DOMAIN m.mem /\ L1PAGEINDEX(va) \in DOMAIN m.mem[f]
       /\ HasBit(m.mem[f][L1PAGEINDEX(va)], PTE_P)
    THEN PTE_ADDR(m.mem[f][L1PAGEINDEX(va)])
    ELSE NULL

\* virtual_memory_lookup(pagetable, va): [pn, pa, perm]; pn = -1 when unmapped.
virtual_memory_lookup(m, pagetable, va) ==
    LET l2 == L2TableOf(m, pagetable, va)
        f2 == PAGENUMBER(l2)
        e  == IF l2 # NULL /\ f2 \in DOMAIN m.mem
                 /\ L2PAGEINDEX(va) \in DOMAIN m.mem[f2]
              THEN m.mem[f2][L2PAGEINDEX(va)] ELSE 0
    IN  IF HasBit(e, PTE_P)
        THEN [pn |-> PAGENUMBER(e), pa |-> PTE_ADDR(e) + (va % PAGESIZE),
              perm |-> PTE_FLAGS(e)]
        ELSE [pn |-> -1, pa |-> -1, perm |-> 0]

\* virtual_memory_map(pagetable, va, pa, sz, perm): the memory after mapping
\* [va, va+sz) to [pa, pa+sz); an entry without PTE_P is cleared.  MapPages is
\* the level-2 table tbl after its loop over the pages.
MapPages(tbl, va, pa, sz, perm) ==
    [i \in DOMAIN tbl |->
        IF L2PAGEINDEX(va) <= i /\ i < L2PAGEINDEX(va) + sz \div PAGESIZE
        THEN IF HasBit(perm, PTE_P)
             THEN pa + (i - L2PAGEINDEX(va)) * PAGESIZE + perm
             ELSE 0
        ELSE tbl[i]] @@ << >>

virtual_memory_map(m, pagetable, va, pa, sz, perm) ==
    LET l2 == L2TableOf(m, pagetable, va)
        f2 == PAGENUMBER(l2)
    IN  IF l2 = NULL \/ f2 \notin DOMAIN m.mem THEN m
        ELSE [m EXCEPT !.mem[f2] = MapPages(m.mem[f2], va, pa, sz, perm)]

\* A faulty copy_pagetable: the copy also counts as a reference to the table
\* copied.
copy_pagetable_refsource(m, pagetable, owner) ==
    LET a1 == page_alloc_lite(m, owner)
        a2 == page_alloc_lite(a1.m, owner)
        src1 == m.mem[PAGENUMBER(pagetable)]
        src2 == m.mem[PAGENUMBER(PTE_ADDR(src1[0]))]
    IN  IF a1.page = NULL THEN [pt |-> NULL, m |-> a1.m]
        ELSE IF a2.page = NULL THEN [pt |-> NULL, m |-> a2.m]
        ELSE [pt |-> a1.page,
              m  |-> [a2.m EXCEPT !.pageinfo[PAGENUMBER(pagetable)].refcount = @ + 1,
                                  !.mem =
                         (PAGENUMBER(a1.page) :>
                             [src1 EXCEPT ![0] = a2.page + PTE_P + PTE_W + PTE_U])
                         @@ (PAGENUMBER(a2.page) :> src2)
                         @@ m.mem]]

\* copy_pagetable(pagetable, owner): [pt, m]
copy_pagetable(m, pagetable, owner) ==
    LET a1 == page_alloc_lite(m, owner)
        a2 == page_alloc_lite(a1.m, owner)
        src1 == m.mem[PAGENUMBER(pagetable)]
        src2 == m.mem[PAGENUMBER(PTE_ADDR(src1[0]))]
    IN  IF a1.page = NULL THEN [pt |-> NULL, m |-> a1.m]
        ELSE IF a2.page = NULL THEN [pt |-> NULL, m |-> a2.m]
        ELSE [pt |-> a1.page,
              m  |-> [a2.m EXCEPT !.mem =
                         (PAGENUMBER(a1.page) :>
                             [src1 EXCEPT ![0] = a2.page + PTE_P + PTE_W + PTE_U])
                         @@ (PAGENUMBER(a2.page) :> src2)
                         @@ m.mem]]

\* A faulty sys_page_alloc_func: the page is mapped without PTE_U.
sys_page_alloc_func_nouser(m, addr, pagetable, pid) ==
    LET pn == FirstFree(m.pageinfo)
        a  == physical_page_alloc(m.pageinfo, pn * PAGESIZE, pid)
        m1 == [m EXCEPT !.pageinfo = a.pageinfo,
                        !.log = Append(@, [fn |-> "sys_page_alloc_func", owner |-> pid,
                                           addr |-> pn * PAGESIZE, r |-> a.r,
                                           va |-> addr])]
    IN  [r |-> a.r,
         m |-> IF a.r >= 0
               THEN virtual_memory_map(m1, pagetable, addr, pn * PAGESIZE,
                                       PAGESIZE, PTE_P + PTE_W)
               ELSE m1]

\* A faulty sys_page_alloc_func: the page is mapped whatever
\* physical_page_alloc returned.
sys_page_alloc_func_alwaysmap(m, addr, pagetable, pid) ==
    LET pn == FirstFree(m.pageinfo)
        a  == physical_page_alloc(m.pageinfo, pn * PAGESIZE, pid)
        m1 == [m EXCEPT !.pageinfo = a.pageinfo,
                        !.log = Append(@, [fn |-> "sys_page_alloc_func", owner |-> pid,
                                           addr |-> pn * PAGESIZE, r |-> a.r,
                                           va |-> addr])]
    IN  [r |-> a.r,
         m |-> virtual_memory_map(m1, pagetable, addr, pn * PAGESIZE,
                                  PAGESIZE, PTE_P + PTE_W + PTE_U)]

\* A faulty sys_page_alloc_func: the frame the page was mapped to before is
\* released.
sys_page_alloc_func_release(m, addr, pagetable, pid) ==
    LET old == virtual_memory_lookup(m, pagetable, addr)
        pi0 == IF old.perm # 0 /\ m.pageinfo[old.pn].owner = pid
               THEN [m.pageinfo EXCEPT ![old.pn] = [owner |-> PO_FREE, refcount |-> 0]]
               ELSE m.pageinfo
        pn == FirstFree(pi0)
        a  == physical_page_alloc(pi0, pn * PAGESIZE, pid)
        m1 == [m EXCEPT !.pageinfo = a.pageinfo,
                        !.log = Append(@, [fn |-> "sys_page_alloc_func", owner |-> pid,
                                           addr |-> pn * PAGESIZE, r |-> a.r,
                                           va |-> addr])]
    IN  [r |-> a.r,
         m |-> IF a.r >= 0
               THEN virtual_memory_map(m1, pagetable, addr, pn * PAGESIZE,
                                       PAGESIZE, PTE_P + PTE_W + PTE_U)
               ELSE m1]

\* sys_page_alloc_func(addr, pagetable, pid): [r, m]
sys_page_alloc_func(m, addr, pagetable, pid) ==
    LET pn == FirstFree(m.pageinfo)
        a  == physical_page_alloc(m.pageinfo, pn * PAGESIZE, pid)
        m1 == [m EXCEPT !.pageinfo = a.pageinfo,
                        !.log = Append(@, [fn |-> "sys_page_alloc_func", owner |-> pid,
                                           addr |-> pn * PAGESIZE, r |-> a.r,
                                           va |-> addr])]
    IN  [r |-> a.r,
         m |-> IF a.r >= 0
               THEN virtual_memory_map(m1, pagetable, addr, pn * PAGESIZE,
                                       PAGESIZE, PTE_P + PTE_W + PTE_U)
               ELSE m1]

\* --------------------------------------------------------- process table

FreeProc == [p_state |-> "P_FREE", p_pagetable |-> NULL,
             p_registers |-> [reg_eax |-> 0, reg_esp |-> 0]]

\* The load address of a program image: programs 0..3 are linked at the
\* start of process regions 0..3, the fork programs 4 and 5 at PROC_START_ADDR.
ProgramBase(program_number) ==
    PROC_START_ADDR + (IF program_number < 4 THEN program_number ELSE 0) * PROC_SIZE

\* program_load(p, program_number): the loader claims the image's pages with
\* physical_page_alloc and maps the first rotext of them (the read-only
\* segment) without PTE_W; [r, m].
RECURSIVE LoadPages(_, _, _, _, _, _)
LoadPages(m, pagetable, addr, n, pid, rotext) ==
    IF n = 0 THEN [r |-> 0, m |-> m]
    ELSE LET a == physical_page_alloc(m.pageinfo, addr, pid)
             m1 == [m EXCEPT !.pageinfo = a.pageinfo]
         IN  IF a.r < 0 THEN [r |-> -1, m |-> m1]
             ELSE LoadPages(IF rotext > 0
                            THEN virtual_memory_map(m1, pagetable, addr, addr, PAGESIZE,
                                                    PTE_P + PTE_U)
                            ELSE m1,
                            pagetable, addr + PAGESIZE, n - 1, pid,
                            IF rotext > 0 THEN rotext - 1 ELSE 0)

program_load(m, pagetable, pid, program_number, rotext) ==
    LoadPages(m, pagetable, ProgramBase(program_number), ProgramPages, pid, rotext)

\* process_setup(pid, program_number) on the state s = [m, procs, ok];
\* ok becomes FALSE when assert(r >= 0) fails.
process_setup(s, pid, program_number, rotext) ==
    LET cp == copy_pagetable(s.m, kernel_pagetable, pid)
        base == PROC_START_ADDR + (pid - 1) * PROC_SIZE
        m1 == IF cp.pt # NULL
              THEN virtual_memory_map(
                       virtual_memory_map(cp.m, cp.pt, PROC_START_ADDR, PROC_START_ADDR,
                                          MEMSIZE_PHYSICAL - PROC_START_ADDR, 0),
                       cp.pt, base, base, 2 * PAGESIZE, PTE_P + PTE_W + PTE_U)
              ELSE [cp.m EXCEPT !.pageinfo[PAGENUMBER(kernel_pagetable)].refcount = @ + 1]
        pt == IF cp.pt # NULL THEN cp.pt ELSE kernel_pagetable
        ld == program_load(m1, pt, pid, program_number, rotext)
        st == sys_page_alloc_func(ld.m, MEMSIZE_VIRTUAL - PAGESIZE, pt, pid)
    IN  IF ld.r < 0
        THEN [m |-> ld.m, ok |-> FALSE,
              procs |-> [s.procs EXCEPT ![pid] =
                  [p_state |-> "P_RUNNABLE", p_pagetable |-> pt,
                   p_registers |-> [reg_eax |-> 0, reg_esp |-> 0]]]]
        ELSE [m |-> st.m, ok |-> s.ok,
              procs |-> [s.procs EXCEPT ![pid] =
                  [p_state |-> "P_RUNNABLE", p_pagetable |-> pt,
                   p_registers |-> [reg_eax |-> 0, reg_esp |-> MEMSIZE_VIRTUAL]]]]

\* A faulty pageinfo_init: the kernel's own pages are left free.
pageinfo_init_nokernel ==
    [pn \in Frames |->
        LET owner == IF pn = 0 \/ pn = CONSOLE_PN THEN PO_RESERVED ELSE PO_FREE
        IN  [owner |-> owner, refcount |-> IF owner # PO_FREE THEN 1 ELSE 0]]

\* pageinfo_init(): reserved memory is the null page and I/O memory; the
\* kernel owns its code and data (with the page tables) and its stack page.
pageinfo_init ==
    [pn \in Frames |->
        LET owner == IF pn = 0 \/ pn = CONSOLE_PN THEN PO_RESERVED
                     ELSE IF pn >= KERNEL_START_PN /\ pn <= KERNEL_STACK_PN THEN PO_KERNEL
                     ELSE PO_FREE
        IN  [owner |-> owner, refcount |-> IF owner # PO_FREE THEN 1 ELSE 0]]

\* The kernel page table after hardware_init() and the two mappings of
\* start(): identity, kernel memory without PTE_U, the console with it.
KernelTables ==
    (KERNEL_PT_PN :> [i \in 0 .. (L1Entries - 1) |->
                        IF i = 0 THEN PAGEADDRESS(KERNEL_PT2_PN) + PTE_P + PTE_W + PTE_U
                        ELSE 0])
    @@ (KERNEL_PT2_PN :> [vp \in VPages |->
                        IF vp >= npages THEN 0
                        ELSE IF vp < PROC_START_PN /\ vp # CONSOLE_PN
                             THEN PAGEADDRESS(vp) + PTE_P + PTE_W
                             ELSE PAGEADDRESS(vp) + PTE_P + PTE_W + PTE_U])

\* start(command) up to run(&processes[1]).
RECURSIVE SetupAll(_, _, _, _)
SetupAll(s, i, n, rotext) ==
    IF i > n THEN s ELSE SetupAll(process_setup(s, i, i - 1, rotext), i + 1, n, rotext)

start(command, rotext) ==
    LET s0 == [m |-> [pageinfo |-> pageinfo_init, mem |-> KernelTables, log |-> << >>],
               procs |-> [i \in Pids |-> FreeProc], ok |-> TRUE]
    IN  IF command = "fork" THEN process_setup(s0, 1, 4, rotext)
        ELSE IF command = "forkexit" THEN process_setup(s0, 1, 5, rotext)
        ELSE SetupAll(s0, 1, 4, rotext)

\* ---------------------------------------------------------------- scheduler

\* A faulty scan: it tests the current process before it moves on.
RECURSIVE ScheduleScan_fromcurrent(_, _, _)
ScheduleScan_fromcurrent(procs, pid, k) ==
    IF k = 0 THEN -1
    ELSE IF procs[pid].p_state = "P_RUNNABLE" THEN pid
         ELSE ScheduleScan_fromcurrent(procs, (pid + 1) % nproc, k - 1)

\* A faulty scan: it stops at the first descriptor in use, runnable or not.
RECURSIVE ScheduleScan_inuse(_, _, _)
ScheduleScan_inuse(procs, pid, k) ==
    IF k = 0 THEN -1
    ELSE LET p == (pid + 1) % nproc
         IN  IF procs[p].p_state # "P_FREE" THEN p
             ELSE ScheduleScan_inuse(procs, p, k - 1)

\* A faulty scan: every pass starts at the head of the table.
RECURSIVE ScheduleScan_fromhead(_, _, _)
ScheduleScan_fromhead(procs, pid, k) ==
    IF \E p \in Pids : procs[p].p_state = "P_RUNNABLE"
    THEN CHOOSE p \in Pids : /\ procs[p].p_state = "P_RUNNABLE"
                             /\ \A q \in 0 .. (p - 1) : procs[q].p_state # "P_RUNNABLE"
    ELSE -1

\* schedule(): the pid run() is called with, -1 when a whole pass over the
\* table finds no runnable process (the loop then spins for ever).
RECURSIVE ScheduleScan(_, _, _)
ScheduleScan(procs, pid, k) ==
    IF k = 0 THEN -1
    ELSE LET p == (pid + 1) % nproc
         IN  IF procs[p].p_state = "P_RUNNABLE" THEN p
             ELSE ScheduleScan(procs, p, k - 1)

schedule(procs, cur) == ScheduleScan(procs, cur, nproc)

\* -------------------------------------------------------- invariant checker

\* virtual_memory_check(): TRUE when no assertion fails.
expected_kernel_refcount(procs) ==
    1 + Cardinality({pid \in Pids : /\ procs[pid].p_state # "P_FREE"
                                    /\ procs[pid].p_pagetable = kernel_pagetable})

\* The assertions on one page table: its level-1 frame, then the frame of
\* each present level-1 entry.
TableOk(m, pagetable, expected_owner, expected_refcount) ==
    LET f == PAGENUMBER(pagetable) IN
    /\ m.pageinfo[f].owner = expected_owner
    /\ m.pageinfo[f].refcount = expected_refcount
    /\ f \in DOMAIN m.mem
    /\ \A pn \in DOMAIN m.mem[f] :
          HasBit(m.mem[f][pn], PTE_P) =>
             /\ m.pageinfo[PAGENUMBER(m.mem[f][pn])].owner = expected_owner
             /\ m.pageinfo[PAGENUMBER(m.mem[f][pn])].refcount = 1

\* The loop over pid = -1 .. NPROC-1: the assertions on the kernel's table and
\* on the table of every descriptor in use.
PageTablesOk(m, procs) ==
    /\ TableOk(m, kernel_pagetable, PO_KERNEL, expected_kernel_refcount(procs))
    /\ \A pid \in Pids :
          procs[pid].p_state # "P_FREE" =>
             IF procs[pid].p_pagetable = kernel_pagetable
             THEN TableOk(m, kernel_pagetable, PO_KERNEL, expected_kernel_refcount(procs))
             ELSE TableOk(m, procs[pid].p_pagetable, pid, 1)

\* The last loop: every referenced frame with a process owner belongs to a
\* descriptor in use.
OwnersActive(m, procs) ==
    \A pn \in Frames :
       (m.pageinfo[pn].refcount > 0 /\ m.pageinfo[pn].owner >= 0) =>
          /\ m.pageinfo[pn].owner \in Pids
          /\ procs[m.pageinfo[pn].owner].p_state # "P_FREE"

virtual_memory_check(m, procs) ==
    /\ procs[0].p_state = "P_FREE"
    /\ PageTablesOk(m, procs)
    /\ OwnersActive(m, procs)


\* --------------------------------------------------------------------- fork

\* A faulty loop: a writable page of the parent is mapped into the child as
\* it is, without a new frame.
RECURSIVE ForkPages_alias(_, _, _, _, _, _)
ForkPages_alias(m, vpns, curpt, curpid, newpid, childpt) ==
    IF vpns = {} THEN m
    ELSE LET vpn == CHOOSE v \in vpns : \A w \in vpns : v <= w
             va  == PAGEADDRESS(vpn)
             vam == virtual_memory_lookup(m, curpt, va)
         IN  IF vam.perm # 0 /\ m.pageinfo[vam.pn].owner = curpid
             THEN LET m1 == virtual_memory_map(m, childpt, va, vam.pa, PAGESIZE, vam.perm)
                  IN  ForkPages_alias([m1 EXCEPT !.pageinfo[vam.pn].refcount = @ + 1],
                                      vpns \ {vpn}, curpt, curpid, newpid, childpt)
             ELSE ForkPages_alias(m, vpns \ {vpn}, curpt, curpid, newpid, childpt)

\* A faulty loop: a shared page is mapped into the child with full
\* permissions instead of the parent's.
RECURSIVE ForkPages_sharedwritable(_, _, _, _, _, _)
ForkPages_sharedwritable(m, vpns, curpt, curpid, newpid, childpt) ==
    IF vpns = {} THEN m
    ELSE LET vpn == CHOOSE v \in vpns : \A w \in vpns : v <= w
             va  == PAGEADDRESS(vpn)
             vam == virtual_memory_lookup(m, curpt, va)
         IN  IF HasBit(vam.perm, PTE_W) /\ m.pageinfo[vam.pn].owner = curpid
             THEN LET a == page_alloc_lite(m, newpid)
                  IN  ForkPages_sharedwritable(virtual_memory_map(a.m,
                                                   childpt, va, a.page, PAGESIZE, vam.perm),
                                vpns \ {vpn}, curpt, curpid, newpid, childpt)
             ELSE IF vam.perm # 0 /\ m.pageinfo[vam.pn].owner = curpid
             THEN LET m1 == virtual_memory_map(m, childpt, va, vam.pa, PAGESIZE,
                                               PTE_P + PTE_W + PTE_U)
                  IN  ForkPages_sharedwritable([m1 EXCEPT !.pageinfo[vam.pn].refcount = @ + 1],
                                vpns \ {vpn}, curpt, curpid, newpid, childpt)
             ELSE ForkPages_sharedwritable(m, vpns \ {vpn}, curpt, curpid, newpid, childpt)

\* The loop of INT_SYS_FORK over the pages va of [PROC_START_ADDR,
\* MEMSIZE_VIRTUAL), in increasing order: the memory after it.  The lookups read
\* the parent's table, the mappings go into the child's.  vpns holds the page
\* numbers still to visit; a page the parent has no permission on takes
\* neither branch and is left out of it.
RECURSIVE ForkPages(_, _, _, _, _, _)
ForkPages(m, vpns, curpt, curpid, newpid, childpt) ==
    IF vpns = {} THEN m
    ELSE LET vpn == CHOOSE v \in vpns : \A w \in vpns : v <= w
             va  == PAGEADDRESS(vpn)
             vam == virtual_memory_lookup(m, curpt, va)
         IN  IF HasBit(vam.perm, PTE_W) /\ m.pageinfo[vam.pn].owner = curpid
             THEN LET a == page_alloc_lite(m, newpid)
                  IN  ForkPages(virtual_memory_map(a.m,
                                                   childpt, va, a.page, PAGESIZE, vam.perm),
                                vpns \ {vpn}, curpt, curpid, newpid, childpt)
             ELSE IF vam.perm # 0 /\ m.pageinfo[vam.pn].owner = curpid
             THEN LET m1 == virtual_memory_map(m, childpt, va, vam.pa, PAGESIZE, vam.perm)
                  IN  ForkPages([m1 EXCEPT !.pageinfo[vam.pn].refcount = @ + 1],
                                vpns \ {vpn}, curpt, curpid, newpid, childpt)
             ELSE ForkPages(m, vpns \ {vpn}, curpt, curpid, newpid, childpt)

\* A faulty body: the child's reg_eax is not reset.
ForkInto_eaxkept(s, cur, newpid) ==
    LET cp == copy_pagetable(s.m, s.procs[cur].p_pagetable, newpid)
        m1 == ForkPages(cp.m,
                        {vpn \in PROC_START_PN .. (NVPAGES - 1) :
                            virtual_memory_lookup(cp.m, s.procs[cur].p_pagetable,
                                                  PAGEADDRESS(vpn)).perm # 0},
                        s.procs[cur].p_pagetable, cur, newpid, cp.pt)
    IN  [m |-> m1,
         procs |-> [s.procs EXCEPT
            ![newpid] = [p_state |-> "P_RUNNABLE", p_pagetable |-> cp.pt,
                         p_registers |-> s.procs[cur].p_registers],
            ![cur].p_registers.reg_eax = newpid]]

\* A faulty body: the slot of the child is not marked runnable.
ForkInto_slotfree(s, cur, newpid) ==
    LET cp == copy_pagetable(s.m, s.procs[cur].p_pagetable, newpid)
        m1 == ForkPages(cp.m,
                        {vpn \in PROC_START_PN .. (NVPAGES - 1) :
                            virtual_memory_lookup(cp.m, s.procs[cur].p_pagetable,
                                                  PAGEADDRESS(vpn)).perm # 0},
                        s.procs[cur].p_pagetable, cur, newpid, cp.pt)
    IN  [m |-> m1,
         procs |-> [s.procs EXCEPT
            ![newpid] = [p_state |-> "P_FREE", p_pagetable |-> cp.pt,
                         p_registers |-> [s.procs[cur].p_registers EXCEPT !.reg_eax = 0]],
            ![cur].p_registers.reg_eax = newpid]]

\* The body of the loop over newpid once a free slot is found, on s = [m, procs].
ForkInto(s, cur, newpid) ==
    LET cp == copy_pagetable(s.m, s.procs[cur].p_pagetable, newpid)
        m1 == ForkPages(cp.m,
                        {vpn \in PROC_START_PN .. (NVPAGES - 1) :
                            virtual_memory_lookup(cp.m, s.procs[cur].p_pagetable,
                                                  PAGEADDRESS(vpn)).perm # 0},
                        s.procs[cur].p_pagetable, cur, newpid, cp.pt)
    IN  [m |-> m1,
         procs |-> [s.procs EXCEPT
            ![newpid] = [p_state |-> "P_RUNNABLE", p_pagetable |-> cp.pt,
                         p_registers |-> [s.procs[cur].p_registers EXCEPT !.reg_eax = 0]],
            ![cur].p_registers.reg_eax = newpid]]

\* A faulty loop: a full table is not reported.
RECURSIVE ForkScan_silent(_, _, _)
ForkScan_silent(s, cur, newpid) ==
    IF newpid >= nproc THEN s
    ELSE IF s.procs[newpid].p_state = "P_FREE" THEN ForkInto(s, cur, newpid)
    ELSE ForkScan_silent(s, cur, newpid + 1)

\* for (newpid = 1; newpid < NPROC; ++newpid) ...
RECURSIVE ForkScan(_, _, _)
ForkScan(s, cur, newpid) ==
    IF newpid >= nproc THEN s
    ELSE IF s.procs[newpid].p_state = "P_FREE" THEN ForkInto(s, cur, newpid)
    ELSE IF newpid = FORK_LAST_PID
         THEN ForkScan([s EXCEPT !.procs[cur].p_registers.reg_eax = -1], cur, newpid + 1)
         ELSE ForkScan(s, cur, newpid + 1)

\* ------------------------------------------------------------------ actions

M == [pageinfo |-> pageinfo, mem |-> mem, log |-> << >>]

CheckOk == virtual_memory_check(M, processes)

\* Addresses a process passes to the page-allocation system call: a kernel
\* address, the first page of its image, a fresh page below the stack page.
AllocAddrs == {PAGEADDRESS(KERNEL_STACK_PN), PROC_START_ADDR,
               MEMSIZE_VIRTUAL - 2 * PAGESIZE}

\* panic(): the kernel halts.
Halt(intno) ==
    /\ kstate' = "panic"
    /\ last' = intno
    /\ quota' = IF intno = "INT_SYS_FORK" THEN [quota EXCEPT !.forks = @ - 1]
                ELSE [quota EXCEPT !.traps = @ - 1]
    /\ alloclog' = << >>
    /\ UNCHANGED <<io, pong, nproc, npages, pageinfo, mem, processes, current, ticks, owed>>

\* The runnable processes of a process table.
Runnable(procs) == {p \in Pids : procs[p].p_state = "P_RUNNABLE"}

\* The history after schedule() has called run(q): q is owed nothing new by
\* the others, and every process that is runnable now owes q a turn.
OwedAfterRun(q, procs) ==
    [r \in Pids |-> IF r = q THEN Runnable(procs) \ {q}
                    ELSE (owed[r] \ {q}) \cap Runnable(procs)]

\* The history after a trap that starts no new turn.
OwedKeep(procs) == [r \in Pids |-> owed[r] \cap Runnable(procs)]

\* A faulty schedule(): after a pass that finds no runnable process it runs
\* the current one.
Schedule_runcurrent(procs) ==
    LET p == schedule(procs, current)
    IN  IF p < 0 THEN current' = current /\ kstate' = "user" /\ owed' = OwedKeep(procs)
        ELSE current' = p /\ kstate' = "user" /\ owed' = OwedAfterRun(p, procs)

\* schedule(): run the next runnable process, or spin.
Schedule(procs) ==
    LET p == schedule(procs, current)
    IN  IF p < 0 THEN current' = current /\ kstate' = "idle" /\ owed' = OwedKeep(procs)
        ELSE current' = p /\ kstate' = "user" /\ owed' = OwedAfterRun(p, procs)

\* A faulty end of interrupt(): schedule() is called whatever the state of the
\* current process.
Resume_schedule(procs) == Schedule(procs)

\* The end of interrupt(): run(current) when it is runnable, else schedule().
Resume(procs) ==
    IF procs[current].p_state = "P_RUNNABLE"
    THEN current' = current /\ kstate' = "user" /\ owed' = OwedKeep(procs)
    ELSE Schedule(procs)

SysPanic ==
    /\ kstate = "user"
    /\ quota.traps > 0
    /\ Halt("INT_SYS_PANIC")

SysGetPid ==
    /\ kstate = "user"
    /\ quota.traps > 0
    /\ IF ~CheckOk THEN Halt("INT_SYS_GETPID")
       ELSE /\ processes' = [processes EXCEPT ![current].p_registers.reg_eax = current]
            /\ Resume(processes')
            /\ last' = "INT_SYS_GETPID"
            /\ quota' = [quota EXCEPT !.traps = @ - 1]
            /\ alloclog' = << >>
            /\ UNCHANGED <<io, pong, nproc, npages, pageinfo, mem, ticks>>

SysYield ==
    /\ kstate = "user"
    /\ quota.traps > 0
    /\ IF ~CheckOk THEN Halt("INT_SYS_YIELD")
       ELSE /\ Schedule(processes)
            /\ last' = "INT_SYS_YIELD"
            /\ quota' = [quota EXCEPT !.traps = @ - 1]
            /\ alloclog' = << >>
            /\ UNCHANGED <<io, pong, nproc, npages, pageinfo, mem, processes, ticks>>

SysPageAlloc ==
    /\ kstate = "user"
    /\ quota.traps > 0
    /\ \E addr \in AllocAddrs :
          IF ~CheckOk THEN Halt("INT_SYS_PAGE_ALLOC")
          ELSE \E a \in {sys_page_alloc_func(M, addr, processes[current].p_pagetable, current)} :
                   /\ pageinfo' = a.m.pageinfo
                   /\ mem' = a.m.mem
                   /\ alloclog' = a.m.log
                   /\ processes' = [processes EXCEPT ![current].p_registers.reg_eax = a.r]
                   /\ Resume(processes')
                   /\ last' = "INT_SYS_PAGE_ALLOC"
                   /\ quota' = [quota EXCEPT !.traps = @ - 1]
                   /\ UNCHANGED <<io, pong, nproc, npages, ticks>>

\* The first free slot a fork takes, nproc when the table is full.
FirstFreeSlot ==
    IF \E p \in 1 .. (nproc - 1) : processes[p].p_state = "P_FREE"
    THEN CHOOSE p \in 1 .. (nproc - 1) :
            /\ processes[p].p_state = "P_FREE"
            /\ \A q \in 1 .. (p - 1) : processes[q].p_state # "P_FREE"
    ELSE nproc

\* A fork whose copy_pagetable() returned NULL maps through a null table
\* pointer: the build either takes a kernel page fault at the first
\* virtual_memory_map() (panic: the slot is marked runnable, nothing else of
\* the descriptors is written yet) or the stores miss every page table and the
\* handler runs to its end.
SysFork ==
    /\ kstate = "user"
    /\ quota.forks > 0
    /\ IF ~CheckOk THEN Halt("INT_SYS_FORK")
       ELSE \E s \in {ForkScan([m |-> M, procs |-> processes], current, 1)} :
            \E fault \in BOOLEAN :
               /\ IF fault /\ FirstFreeSlot < nproc /\ s.procs[FirstFreeSlot].p_pagetable = NULL
                  THEN \E cp \in {copy_pagetable(M, processes[current].p_pagetable,
                                                 FirstFreeSlot)} :
                          /\ pageinfo' = cp.m.pageinfo
                          /\ mem' = cp.m.mem
                          /\ alloclog' = cp.m.log
                          /\ processes' = [processes EXCEPT
                                              ![FirstFreeSlot].p_state = "P_RUNNABLE"]
                          /\ current' = current
                          /\ kstate' = "panic"
                          /\ owed' = owed
                  ELSE /\ pageinfo' = s.m.pageinfo
                       /\ mem' = s.m.mem
                       /\ alloclog' = s.m.log
                       /\ processes' = s.procs
                       /\ Resume(processes')
               /\ last' = "INT_SYS_FORK"
               /\ quota' = [quota EXCEPT !.forks = @ - 1]
               /\ UNCHANGED <<io, pong, nproc, npages, ticks>>

Timer ==
    /\ kstate = "user"
    /\ quota.traps > 0
    /\ IF ~CheckOk THEN Halt("INT_TIMER")
       ELSE /\ ticks' = ticks + 1
            /\ Schedule(processes)
            /\ last' = "INT_TIMER"
            /\ quota' = [quota EXCEPT !.traps = @ - 1]
            /\ alloclog' = << >>
            /\ UNCHANGED <<io, pong, nproc, npages, pageinfo, mem, processes>>

\* A faulty handler: the faulting process stays runnable.
PageFault_resume ==
    /\ kstate = "user"
    /\ quota.traps > 0
    /\ IF ~CheckOk THEN Halt("INT_PAGEFAULT")
       ELSE /\ Resume(processes)
            /\ last' = "INT_PAGEFAULT"
            /\ quota' = [quota EXCEPT !.traps = @ - 1]
            /\ alloclog' = << >>
            /\ UNCHANGED <<io, pong, nproc, npages, pageinfo, mem, processes, ticks>>

\* A faulty handler: the descriptor of the faulting process is released.
PageFault_free ==
    /\ kstate = "user"
    /\ quota.traps > 0
    /\ IF ~CheckOk THEN Halt("INT_PAGEFAULT")
       ELSE /\ processes' = [processes EXCEPT ![current].p_state = "P_FREE"]
            /\ Resume(processes')
            /\ last' = "INT_PAGEFAULT"
            /\ quota' = [quota EXCEPT !.traps = @ - 1]
            /\ alloclog' = << >>
            /\ UNCHANGED <<io, pong, nproc, npages, pageinfo, mem, ticks>>

\* A page fault taken in user mode (PFERR_USER set).
PageFault ==
    /\ kstate = "user"
    /\ quota.traps > 0
    /\ IF ~CheckOk THEN Halt("INT_PAGEFAULT")
       ELSE /\ processes' = [processes EXCEPT ![current].p_state = "P_BROKEN"]
            /\ Resume(processes')
            /\ last' = "INT_PAGEFAULT"
            /\ quota' = [quota EXCEPT !.traps = @ - 1]
            /\ alloclog' = << >>
            /\ UNCHANGED <<io, pong, nproc, npages, pageinfo, mem, ticks>>

\* Any other interrupt number.
Unexpected ==
    /\ kstate = "user"
    /\ quota.traps > 0
    /\ Halt("unexpected")

Next ==
    \/ SysPanic
    \/ SysGetPid
    \/ SysYield
    \/ SysPageAlloc
    \/ SysFork
    \/ Timer
    \/ PageFault
    \/ Unexpected

\* The state run(&processes[1]) starts from, for a table of np descriptors,
\* mp pages of physical memory, a boot command, a loader that maps rotext
\* pages of an image read-only, and the traps q to take.
Boot(np, mp, command, rotext, q) ==
    /\ nproc = np
    /\ pong = PongOff
    /\ io = IoOff
    /\ npages = mp
    /\ \E s \in {start(command, rotext)} :
           /\ pageinfo = s.m.pageinfo
           /\ mem = s.m.mem
           /\ processes = s.procs
           /\ kstate = IF s.ok THEN "user" ELSE "panic"
    /\ current = 1
    /\ ticks = 0
    /\ quota = q
    /\ last = "boot"
    /\ alloclog = << >>
    /\ owed = [r \in Pids |-> IF r = 1 THEN Runnable(processes) \ {1} ELSE {}]

Commands == {"fork", "forkexit", "default"}

\* The build: NPROC descriptors, in a memory of the build's shape.
InitBuild ==
    \E command \in Commands, rotext \in 0 .. 1 :
        Boot(NPROC, BuildPages, command, rotext, [traps |-> MaxTraps, forks |-> MaxForks])

\* The build in a memory large enough for the process table to fill up.
InitFull ==
    \E rotext \in 0 .. 1 :
        Boot(NPROC, FullPages, "fork", rotext, [traps |-> MaxTrapsFull, forks |-> NPROC])

Init == InitBuild \/ InitFull

Spec == Init /\ [][Next]_vars

\* A kernel built with a smaller process table: SmallProcs descriptors after
\* the fork command, and 5 descriptors after the default command, which
\* leaves no slot free.
InitCap ==
    \E rotext \in 0 .. 1 :
        \/ Boot(SmallProcs, BuildPages, "fork", rotext,
                [traps |-> MaxTraps, forks |-> MaxForks + 1])
        \/ Boot(5, BuildPages, "default", rotext,
                [traps |-> MaxTraps, forks |-> MaxForks])

SpecCap == InitCap /\ [][Next]_vars

\* physical_page_alloc() called on its own, on the frame table of a booted
\* kernel: any address of a few frames (the null page, a free frame, the kernel
\* stack, the first process page, the last frame and the two past the end), at
\* a page boundary or inside the page, for any process as the owner.
AllocAtAddrs ==
    {PAGEADDRESS(pn) + off :
        pn \in {0, 1, KERNEL_STACK_PN, PROC_START_PN, npages - 1, npages, npages + 1},
        off \in {0, 1, PAGESIZE - 1}}

AllocAt ==
    /\ quota.traps > 0
    /\ \E addr \in AllocAtAddrs, owner \in 1 .. 2 :
          \E a \in {physical_page_alloc(pageinfo, addr, owner)} :
              /\ pageinfo' = a.pageinfo
              /\ alloclog' = <<[fn |-> "physical_page_alloc", owner |-> owner,
                                addr |-> addr, r |-> a.r]>>
    /\ last' = "physical_page_alloc"
    /\ quota' = [quota EXCEPT !.traps = @ - 1]
    /\ UNCHANGED <<io, pong, nproc, npages, mem, processes, current, ticks, kstate, owed>>

InitAlloc ==
    \E command \in Commands :
        Boot(NPROC, BuildPages, command, 0, [traps |-> MaxCalls, forks |-> 0])

SpecAlloc == InitAlloc /\ [][AllocAt]_vars

\* ------------------------------------------------------------ frame table

\* The free frames of the current frame table.
FreeFrames == {pn \in Frames : pageinfo[pn].refcount = 0}

\* The frames the successful calls among the first n of a log allocated.
Taken(log, n) == {PAGENUMBER(log[j].addr) : j \in {k \in 1 .. n : log[k].r = 0}}

\* C1: in every state between interrupts, a frame has refcount 0 exactly when
\* its owner is PO_FREE.
C1_RefcountZeroIffFree ==
    \A pn \in Frames : (pageinfo[pn].refcount = 0) <=> (pageinfo[pn].owner = PO_FREE)

\* A fork has run: it shared a frame (refcount 2), allocated frames to the
\* child, and left free frames.
C1_Witness ==
    /\ last = "INT_SYS_FORK"
    /\ kstate = "user"
    /\ \E pn \in Frames : pageinfo[pn].refcount = 2 /\ pageinfo[pn].owner = current
    /\ \E i \in DOMAIN alloclog :
          /\ alloclog[i].r = 0
          /\ pageinfo[PAGENUMBER(alloclog[i].addr)].owner # current
    /\ FreeFrames # {}

\* C2: an allocation (page_alloc_lite, sys_page_alloc_func) never returns a
\* frame whose refcount was non-zero: each frame a trap's allocations return
\* is a frame of the table that was free before the trap, and no two of the
\* trap's allocations return the same frame.
C2_AllocationsReturnFreeFrames ==
    [][\A i \in DOMAIN alloclog' :
          alloclog'[i].r = 0 =>
             /\ alloclog'[i].addr % PAGESIZE = 0
             /\ PAGENUMBER(alloclog'[i].addr) \in Frames
             /\ pageinfo[PAGENUMBER(alloclog'[i].addr)].refcount = 0
             /\ PAGENUMBER(alloclog'[i].addr) \notin Taken(alloclog', i - 1)]_vars

\* A second fork has allocated three frames or more, all of them still
\* referenced, while the frames of the first fork are in use.
C2_Witness ==
    /\ last = "INT_SYS_FORK"
    /\ quota.forks = MaxForks - 2
    /\ Cardinality(Taken(alloclog, Len(alloclog))) >= 3
    /\ \A pn \in Taken(alloclog, Len(alloclog)) : pageinfo[pn].refcount = 1

\* C3: while a frame is free, an allocation returns the lowest-numbered free
\* frame and sets its record to the requested owner with refcount 1; the
\* page-allocation system call, which allocates once, leaves every other
\* record unchanged, and the allocations of a fork leave every other frame
\* with its owner.
C3_AllocateLowestFree ==
    [][/\ \A i \in DOMAIN alloclog' :
             LET free == FreeFrames \ Taken(alloclog', i - 1)
                 pn   == PAGENUMBER(alloclog'[i].addr)
             IN  free # {} =>
                    /\ alloclog'[i].r = 0
                    /\ pn \in free
                    /\ \A q \in free : pn <= q
                    /\ pageinfo'[pn] = [owner |-> alloclog'[i].owner, refcount |-> 1]
       /\ \A pn \in Frames \ Taken(alloclog', Len(alloclog')) :
             IF last' = "INT_SYS_PAGE_ALLOC"
             THEN pageinfo'[pn] = pageinfo[pn]
             ELSE pageinfo'[pn].owner = pageinfo[pn].owner]_vars

\* A page-allocation system call took the lowest free frame for the current
\* process, above frames in use and below frames still free.
C3_Witness ==
    /\ last = "INT_SYS_PAGE_ALLOC"
    /\ Len(alloclog) = 1
    /\ alloclog[1].r = 0
    /\ alloclog[1].owner = current
    /\ pageinfo[PAGENUMBER(alloclog[1].addr)] = [owner |-> current, refcount |-> 1]
    /\ \A q \in Frames : q < PAGENUMBER(alloclog[1].addr) => pageinfo[q].refcount > 0
    /\ \E q \in FreeFrames : q > PAGENUMBER(alloclog[1].addr)

\* C4: physical_page_alloc(addr, owner) fails and leaves the frame table as
\* it is when addr is not page-aligned, when it is at or past the end of
\* physical memory, or when the frame's refcount is not 0; otherwise it
\* succeeds and changes the record of exactly that frame, to the owner with
\* refcount 1.
C4_AllocAtFailsOrSetsOneFrame ==
    [][last' = "physical_page_alloc" =>
          LET e == alloclog'[1]
              refused == IF e.addr % PAGESIZE # 0 THEN TRUE
                         ELSE IF e.addr >= npages * PAGESIZE THEN TRUE
                         ELSE pageinfo[e.addr \div PAGESIZE].refcount # 0
          IN  IF refused
              THEN e.r < 0 /\ pageinfo' = pageinfo
              ELSE /\ e.r >= 0
                   /\ pageinfo'[e.addr \div PAGESIZE] = [owner |-> e.owner, refcount |-> 1]
                   /\ \A pn \in Frames \ {e.addr \div PAGESIZE} :
                         pageinfo'[pn] = pageinfo[pn]]_vars

\* The last frame was allocated by one call, and a second call for the same
\* aligned address was refused.
C4_Witness ==
    /\ last = "physical_page_alloc"
    /\ quota.traps = MaxCalls - 2
    /\ alloclog[1].addr = PAGEADDRESS(npages - 1)
    /\ alloclog[1].r = -1
    /\ pageinfo[npages - 1].refcount = 1
    /\ pageinfo[npages - 1].owner # alloclog[1].owner

\* --------------------------------------------------------------------- fork

\* The processes a step creates.
Forked == {p \in Pids : processes[p].p_state = "P_FREE" /\ processes'[p].p_state # "P_FREE"}

\* The virtual pages the fork loop visits.
UserVPages == PROC_START_PN .. (NVPAGES - 1)

\* The mapping of virtual page vpn in the table of process pid.
MapOf(pid, vpn) == virtual_memory_lookup(M, processes[pid].p_pagetable, PAGEADDRESS(vpn))

\* vpn is mapped in pid's table to a frame pid owns.
Owns(pid, vpn) ==
    /\ MapOf(pid, vpn).perm # 0
    /\ MapOf(pid, vpn).pn \in Frames
    /\ pageinfo[MapOf(pid, vpn).pn].owner = pid

\* C5: after a fork, every user page the parent owned and mapped writable is
\* mapped in the child, if at all, to a frame other than the parent's, and
\* the parent still maps it to its own frame.
C5_ForkSeparatesWritablePages ==
    [][\A child \in Forked : \A vpn \in UserVPages :
          (Owns(current, vpn) /\ HasBit(MapOf(current, vpn).perm, PTE_W)) =>
             /\ MapOf(child, vpn)'.pn # MapOf(current, vpn).pn
             /\ MapOf(current, vpn)' = MapOf(current, vpn)]_vars

\* The parent has returned from a fork with the child's pid, and a page it
\* owns and maps writable is mapped writable in the child to a frame the
\* child owns.
C5_Witness ==
    /\ last = "INT_SYS_FORK"
    /\ kstate = "user"
    /\ processes[current].p_registers.reg_eax \in 1 .. (nproc - 1)
    /\ LET child == processes[current].p_registers.reg_eax
       IN  /\ processes[child].p_pagetable # NULL
           /\ \E vpn \in UserVPages :
                 /\ Owns(current, vpn) /\ HasBit(MapOf(current, vpn).perm, PTE_W)
                 /\ Owns(child, vpn) /\ HasBit(MapOf(child, vpn).perm, PTE_W)
                 /\ MapOf(child, vpn).pn # MapOf(current, vpn).pn

\* C6: after a fork, every user page the parent owned and mapped without
\* PTE_W is mapped by the parent and by the child to the same frame, and
\* that frame's refcount is one more than before the fork.
C6_ForkSharesReadOnlyPages ==
    [][\A child \in Forked : \A vpn \in UserVPages :
          (Owns(current, vpn) /\ ~HasBit(MapOf(current, vpn).perm, PTE_W)) =>
             /\ MapOf(current, vpn)'.pn = MapOf(current, vpn).pn
             /\ MapOf(child, vpn)'.pn = MapOf(current, vpn).pn
             /\ pageinfo'[MapOf(current, vpn).pn].refcount =
                   pageinfo[MapOf(current, vpn).pn].refcount + 1]_vars

\* C6, for the forks whose copy_pagetable() returned a table.
C6_ForkSharesWhenTableCopied ==
    [][\A child \in Forked : \A vpn \in UserVPages :
          (/\ processes'[child].p_pagetable # NULL
           /\ Owns(current, vpn) /\ ~HasBit(MapOf(current, vpn).perm, PTE_W)) =>
             /\ MapOf(current, vpn)'.pn = MapOf(current, vpn).pn
             /\ MapOf(child, vpn)'.pn = MapOf(current, vpn).pn
             /\ pageinfo'[MapOf(current, vpn).pn].refcount =
                   pageinfo[MapOf(current, vpn).pn].refcount + 1]_vars

\* ---------------------------------------------------------------- scheduler

\* C7: when the scheduler is invoked (a yield, a timer interrupt, a fault of
\* the current process) and a process is runnable, the process that runs
\* next is the first runnable one in the order current+1, current+2, ...
\* modulo the table size, the current process coming last; when none is
\* runnable the scheduler spins.
C7_ScheduleFirstRunnableAfterCurrent ==
    [][(CheckOk /\ last' \in {"INT_SYS_YIELD", "INT_TIMER", "INT_PAGEFAULT"}) =>
          IF Runnable(processes') = {} THEN kstate' = "idle"
          ELSE /\ kstate' = "user"
               /\ current' \in Runnable(processes')
               /\ \A k \in 1 .. nproc :
                     (current + k) % nproc = current' =>
                        \A j \in 1 .. (k - 1) :
                           (current + j) % nproc \notin Runnable(processes')]_vars

\* Process 2 has yielded and the scan has wrapped around the end of the
\* table to process 1.
C7_Witness ==
    /\ last = "INT_SYS_YIELD"
    /\ kstate = "user"
    /\ current = 1
    /\ Runnable(processes) = {1, 2}
    /\ quota.forks = MaxForks - 1
    /\ quota.traps = MaxTraps - 2

\* C8: a page fault taken in user mode makes the runnable current process
\* P_BROKEN and changes nothing else of the process table or of memory; the
\* kernel does not halt, and the process that runs next is a runnable one
\* other than the faulting one (the scheduler spins when there is none).
C8_UserFaultBreaksCurrentOnly ==
    [][(CheckOk /\ last' = "INT_PAGEFAULT") =>
          /\ processes[current].p_state = "P_RUNNABLE"
          /\ processes' = [processes EXCEPT ![current].p_state = "P_BROKEN"]
          /\ pageinfo' = pageinfo /\ mem' = mem
          /\ kstate' # "panic"
          /\ kstate' = "user" => current' # current /\ current' \in Runnable(processes')
          /\ kstate' = "idle" => Runnable(processes') = {}]_vars

\* A process has faulted and another one runs.
C8_Witness ==
    /\ last = "INT_PAGEFAULT"
    /\ kstate = "user"
    /\ processes[current].p_state = "P_RUNNABLE"
    /\ \E p \in Pids : p # current /\ processes[p].p_state = "P_BROKEN"

\* ----------------------------------------------------------- fork, full table

NoFreeSlot == \A p \in 1 .. (nproc - 1) : processes[p].p_state # "P_FREE"

\* C9: a fork called when no slot 1 .. NPROC-1 is free writes -1 to the
\* caller's reg_eax and changes no process state, no page-table reference and
\* no record of the frame table.
C9_ForkFullTableFails ==
    [][(CheckOk /\ last' = "INT_SYS_FORK" /\ NoFreeSlot) =>
          /\ processes'[current].p_registers.reg_eax = -1
          /\ \A p \in Pids : /\ processes'[p].p_state = processes[p].p_state
                             /\ processes'[p].p_pagetable = processes[p].p_pagetable
          /\ pageinfo' = pageinfo]_vars

\* A fork has failed on the full table of the build.
C9_Witness ==
    /\ last = "INT_SYS_FORK"
    /\ nproc = NPROC
    /\ NoFreeSlot
    /\ kstate = "user"
    /\ processes[current].p_registers.reg_eax = -1
    /\ alloclog = << >>

\* C10: for every table capacity, a fork reports failure (-1 in reg_eax)
\* exactly when no slot 1 .. capacity-1 is free.
C10_ForkFailsExactlyWhenFull ==
    [][(CheckOk /\ last' = "INT_SYS_FORK") =>
          (processes'[current].p_registers.reg_eax = -1 <=> NoFreeSlot)]_vars

\* --------------------------------------------------------------------- boot

\* The kernel before start() sets up a process: the frame table and the
\* kernel page table are initialised, every descriptor is P_FREE.
InitKernel ==
    /\ nproc = NPROC
    /\ pong = PongOff
    /\ io = IoOff
    /\ npages \in {BuildPages, FullPages}
    /\ pageinfo = pageinfo_init
    /\ mem = KernelTables
    /\ processes = [i \in Pids |-> FreeProc]
    /\ current = 0
    /\ ticks = 0
    /\ kstate = "boot"
    /\ quota = [traps |-> MaxBootTraps, forks |-> MaxBootTraps]
    /\ last = "init"
    /\ alloclog = << >>
    /\ owed = [r \in Pids |-> {}]

\* The rest of start(command): the processes are set up and run(&processes[1])
\* is called.
Start ==
    /\ kstate = "boot"
    /\ \E command \in Commands, rotext \in 0 .. 1 :
          \E s \in {[m |-> M, procs |-> processes, ok |-> TRUE]} :
          \E t \in {IF command = "fork" THEN process_setup(s, 1, 4, rotext)
                    ELSE IF command = "forkexit" THEN process_setup(s, 1, 5, rotext)
                    ELSE SetupAll(s, 1, 4, rotext)} :
              /\ pageinfo' = t.m.pageinfo
              /\ mem' = t.m.mem
              /\ processes' = t.procs
              /\ kstate' = IF t.ok THEN "user" ELSE "panic"
    /\ current' = 1
    /\ last' = "boot"
    /\ alloclog' = << >>
    /\ owed' = [r \in Pids |-> IF r = 1 THEN Runnable(processes') \ {1} ELSE {}]
    /\ UNCHANGED <<io, pong, nproc, npages, ticks, quota>>

NextBoot == Start \/ Next

SpecBoot == InitKernel /\ [][NextBoot]_vars

AllFree == \A p \in Pids : processes[p].p_state = "P_FREE"

\* C11: on a freshly booted system with only the kernel active (every
\* descriptor P_FREE) the invariant checker expects refcount 1 for the
\* kernel's level-1 table, the frame of that table is owned by the kernel
\* with refcount 1, and no assertion of the checker fails.
C11_CheckerPassesOnKernelOnly ==
    AllFree =>
       /\ expected_kernel_refcount(processes) = 1
       /\ pageinfo[PAGENUMBER(kernel_pagetable)] = [owner |-> PO_KERNEL, refcount |-> 1]
       /\ CheckOk

\* The kernel-only state of the build: free frames exist, the kernel owns
\* its tables and its stack, and the checker passes.
C11_Witness ==
    /\ kstate = "boot"
    /\ AllFree
    /\ npages = BuildPages
    /\ FreeFrames # {}
    /\ pageinfo[KERNEL_STACK_PN].owner = PO_KERNEL
    /\ virtual_memory_check(M, processes)

\* ---------------------------------------------------------- fork, registers

\* C12: after a fork that created a child and returned, the child's saved
\* registers are the parent's registers at the trap except reg_eax, which is
\* 0 in the child and the child's pid in the parent.
C12_ForkCopiesRegisters ==
    [][\A child \in Forked :
          kstate' # "panic" =>
          /\ processes'[child].p_registers =
                [processes[current].p_registers EXCEPT !.reg_eax = 0]
          /\ processes'[current].p_registers =
                [processes[current].p_registers EXCEPT !.reg_eax = child]]_vars

\* Process 1 has forked twice in a row: it entered the second fork with
\* reg_eax = 2, and now holds 3 while its child 3 holds 0 and its stack
\* pointer.
C12_Witness ==
    /\ last = "INT_SYS_FORK"
    /\ kstate = "user"
    /\ current = 1
    /\ quota.traps = MaxTraps
    /\ processes[1].p_registers.reg_eax = 3
    /\ processes[2].p_state = "P_RUNNABLE"
    /\ processes[3].p_state = "P_RUNNABLE"
    /\ processes[3].p_registers =
          [reg_eax |-> 0, reg_esp |-> processes[1].p_registers.reg_esp]
    /\ processes[1].p_registers.reg_esp = MEMSIZE_VIRTUAL

\* ------------------------------------------------- fork, out of page frames

\* One of the two allocations of copy_pagetable(), the first calls a fork
\* step logs, failed.
CopyFailed ==
    /\ alloclog' # << >>
    /\ \/ alloclog'[1].r < 0
       \/ Len(alloclog') >= 2 /\ alloclog'[2].r < 0

\* C13: when one of the two frame allocations of copy_pagetable() fails in a
\* fork, the child ends with the parent's page table as its own and the
\* refcount of the frame of that table is one more than before; the child's
\* page table is never NULL.
C13_CloneFailureAliasesSource ==
    [][\A child \in Forked :
          /\ processes'[child].p_pagetable # NULL
          /\ CopyFailed =>
                /\ processes'[child].p_pagetable = processes[current].p_pagetable
                /\ pageinfo'[PAGENUMBER(processes[current].p_pagetable)].refcount =
                      pageinfo[PAGENUMBER(processes[current].p_pagetable)].refcount + 1]_vars

\* C14: when a frame allocation fails while a fork is handled (in
\* copy_pagetable() or for the copy of a page), the caller finds a negative
\* value in reg_eax, not a new pid.
C14_ForkAllocationFailureReported ==
    [][(last' = "INT_SYS_FORK" /\ \E i \in DOMAIN alloclog' : alloclog'[i].r < 0) =>
          processes'[current].p_registers.reg_eax < 0]_vars

\* ---------------------------------------------------------- page allocation

\* The processes other than the current one.
Others == {p \in Pids : p # current /\ processes[p].p_state # "P_FREE"}

\* The frames that hold the page table of process p: its level-1 table and
\* the level-2 tables its present entries point to.
TableFrames(p) ==
    LET l1 == PAGENUMBER(processes[p].p_pagetable)
    IN  {l1} \cup {PAGENUMBER(PTE_ADDR(mem[l1][i])) :
                      i \in {j \in DOMAIN mem[l1] : HasBit(mem[l1][j], PTE_P)}}

\* C15: a page-allocation system call made while a frame is free allocates
\* exactly one frame, to the caller with refcount 1, maps the requested page
\* to it with PTE_P, PTE_W and PTE_U in the caller's page table, leaves the
\* caller's other pages and the page tables of all other processes as they
\* are, and writes 0 to the caller's reg_eax.
C15_PageAllocMapsOneFrame ==
    [][(last' = "INT_SYS_PAGE_ALLOC" /\ FreeFrames # {} /\ CheckOk) =>
          \A c \in {current} :
          \A va \in {PAGENUMBER(alloclog'[1].va)} :
          \A pn \in {PAGENUMBER(alloclog'[1].addr)} :
              /\ pn \in FreeFrames
              /\ pageinfo' = [pageinfo EXCEPT ![pn] = [owner |-> c, refcount |-> 1]]
              /\ MapOf(c, va)' =
                    [pn |-> pn, pa |-> PAGEADDRESS(pn), perm |-> PTE_P + PTE_W + PTE_U]
              /\ \A vpn \in VPages \ {va} : MapOf(c, vpn)' = MapOf(c, vpn)
              /\ \A p \in Others : \A f \in TableFrames(p) : mem'[f] = mem[f]
              /\ processes' = [processes EXCEPT ![c].p_registers.reg_eax = 0]]_vars

\* A process has allocated the page below its stack page while another
\* process exists, which does not map that page.
C15_Witness ==
    /\ last = "INT_SYS_PAGE_ALLOC"
    /\ kstate = "user"
    /\ processes[current].p_registers.reg_eax = 0
    /\ alloclog[1].va = MEMSIZE_VIRTUAL - 2 * PAGESIZE
    /\ MapOf(current, NVPAGES - 2).pa = alloclog[1].addr
    /\ MapOf(current, NVPAGES - 2).perm = PTE_P + PTE_W + PTE_U
    /\ pageinfo[MapOf(current, NVPAGES - 2).pn] = [owner |-> current, refcount |-> 1]
    /\ \E p \in Others : MapOf(p, NVPAGES - 2).perm = 0

\* C16: a page-allocation system call made while no frame is free writes -1
\* to the caller's reg_eax and changes no frame record and no page table.
C16_PageAllocExhausted ==
    [][(CheckOk /\ last' = "INT_SYS_PAGE_ALLOC" /\ FreeFrames = {}) =>
          /\ processes' = [processes EXCEPT ![current].p_registers.reg_eax = -1]
          /\ pageinfo' = pageinfo
          /\ mem' = mem]_vars

\* A page-allocation system call has failed in a memory without a free frame.
C16_Witness ==
    /\ last = "INT_SYS_PAGE_ALLOC"
    /\ kstate = "user"
    /\ FreeFrames = {}
    /\ alloclog[1].r = -1
    /\ processes[current].p_registers.reg_eax = -1

\* ------------------------------------------------------- process states

\* C17: the state of a descriptor changes only from P_FREE to P_RUNNABLE, at
\* boot or in a fork, and from P_RUNNABLE to P_BROKEN, in a page fault of that
\* process; no descriptor returns to P_FREE and a broken one stays broken.
C17_StateTransitions ==
    [][\A p \in Pids :
          processes'[p].p_state # processes[p].p_state =>
             \/ /\ processes[p].p_state = "P_FREE"
                /\ processes'[p].p_state = "P_RUNNABLE"
                /\ last' \in {"boot", "INT_SYS_FORK"}
             \/ /\ processes[p].p_state = "P_RUNNABLE"
                /\ processes'[p].p_state = "P_BROKEN"
                /\ last' = "INT_PAGEFAULT"
                /\ p = current]_vars

\* Process 1 was created at boot, has forked process 2 and has then faulted.
C17_Witness ==
    /\ last = "INT_PAGEFAULT"
    /\ processes[1].p_state = "P_BROKEN"
    /\ processes[2].p_state = "P_RUNNABLE"
    /\ processes[3].p_state = "P_FREE"
    /\ current = 2
    /\ quota.forks = 0

\* C18: the process control is transferred to is runnable (the assertion at
\* the head of run() holds); descriptor 0 is never made runnable, and no
\* broken or free process runs.
C18_OnlyRunnableRuns ==
    /\ processes[0].p_state = "P_FREE"
    /\ kstate = "user" => /\ current \in Pids \ {0}
                          /\ processes[current].p_state = "P_RUNNABLE"

\* Process 2 has yielded and the scan, passing the free descriptors, descriptor
\* 0 and the broken process 1, has come back to process 2.
C18_Witness ==
    /\ last = "INT_SYS_YIELD"
    /\ kstate = "user"
    /\ current = 2
    /\ processes[1].p_state = "P_BROKEN"
    /\ Runnable(processes) = {2}
    /\ nproc = NPROC

\* ------------------------------------------------------ audited invariants

\* The kernel is between two interrupts: a process runs or schedule() spins.
BetweenInterrupts == kstate \in {"user", "idle"}

\* Every descriptor in use has a page table.
TablesCloned == \A p \in Pids : processes[p].p_state # "P_FREE" => processes[p].p_pagetable # NULL

\* C19: in every state between interrupts no page-table assertion of the
\* checker fails: the level-1 frame of a process with its own table is owned
\* by that process with refcount 1, so is the frame of every present level-1
\* entry, and the kernel's table (also for a process aliasing it) is owned by
\* the kernel.
C19_PageTableAssertionsHold ==
    BetweenInterrupts => PageTablesOk(M, processes)

\* The same, for the states in which every copy_pagetable() of a fork has
\* returned a table.
C19_AssertionsHoldWhenCloned ==
    (BetweenInterrupts /\ TablesCloned) => PageTablesOk(M, processes)

\* The runnable processes whose page table is the kernel's.
RunnableAliases == {p \in Runnable(processes) : processes[p].p_pagetable = kernel_pagetable}

C21_OwnedFramesHaveLiveOwner ==
    BetweenInterrupts => OwnersActive(M, processes)

\* A forked process and a broken process each own a referenced frame.
C21_Witness ==
    /\ BetweenInterrupts
    /\ last = "INT_PAGEFAULT"
    /\ \E p \in Pids : /\ processes[p].p_state = "P_BROKEN"
                       /\ \E pn \in Frames : pageinfo[pn] = [owner |-> p, refcount |-> 1]
    /\ \E p \in Pids : /\ processes[p].p_state = "P_RUNNABLE"
                       /\ processes[p].p_registers.reg_eax = 0
                       /\ quota.forks < MaxForks
                       /\ p > 1
                       /\ \E pn \in Frames : pageinfo[pn].owner = p /\ pageinfo[pn].refcount > 0

\* C22: frames are never released.  In every step no refcount decreases, the
\* owner of a frame with refcount > 0 does not change, and the set of free
\* frames does not grow.
C22_FramesNeverReleased ==
    [][/\ \A pn \in Frames :
             /\ pageinfo'[pn].refcount >= pageinfo[pn].refcount
             /\ pageinfo[pn].refcount > 0 => pageinfo'[pn].owner = pageinfo[pn].owner
       /\ FreeFrames' \subseteq FreeFrames]_vars

\* A page-allocation call has taken a frame for a page that was mapped before,
\* in a memory where a fork has made a frame shared.
C22_Witness ==
    /\ last = "INT_SYS_PAGE_ALLOC"
    /\ current = 1
    /\ alloclog[1].r = 0
    /\ alloclog[1].va = PROC_START_ADDR
    /\ \E pn \in Frames : pageinfo[pn].refcount = 2 /\ pageinfo[pn].owner = 1

\* -------------------------------------------------------------- scheduling

\* C23: a getpid, page-allocation or fork system call whose handler returns
\* resumes the process that trapped, and a process the fork created is
\* runnable but is not the one resumed; a page fault of the current process
\* leaves it not runnable and calls the scheduler, which runs another process
\* when one is runnable and spins otherwise.
C23_ResumeOrSchedule ==
    [][/\ (last' \in {"INT_SYS_GETPID", "INT_SYS_PAGE_ALLOC", "INT_SYS_FORK"}
             /\ kstate' # "panic" /\ CheckOk) =>
             /\ kstate' = "user"
             /\ current' = current
             /\ \A child \in Forked : /\ child # current'
                                      /\ processes'[child].p_state = "P_RUNNABLE"
       /\ (last' = "INT_PAGEFAULT" /\ CheckOk) =>
             /\ processes'[current].p_state # "P_RUNNABLE"
             /\ IF Runnable(processes') = {}
                THEN kstate' = "idle"
                ELSE /\ kstate' = "user"
                     /\ current' # current
                     /\ current' = schedule(processes', current)]_vars

\* Process 1 has forked, has been resumed with the child's pid in reg_eax, and
\* has then faulted: the child runs.
C23_Witness ==
    /\ last = "INT_PAGEFAULT"
    /\ kstate = "user"
    /\ quota = [traps |-> MaxTraps - 1, forks |-> MaxForks - 1]
    /\ processes[1].p_state = "P_BROKEN"
    /\ processes[1].p_registers.reg_eax = 2
    /\ processes[2].p_state = "P_RUNNABLE"
    /\ current = 2

\* No descriptor is runnable.
NoneRunnable == Runnable(processes) = {}

\* C24: once no descriptor is runnable the scheduler spins: no process is
\* running, and the state stays as it is for ever, with the process table
\* and the frame table unchanged.
C24_SpinIsTerminal ==
    /\ [](NoneRunnable => kstate = "idle")
    /\ [][NoneRunnable => /\ kstate' = "idle"
                          /\ processes' = processes
                          /\ pageinfo' = pageinfo
                          /\ mem' = mem
                          /\ current' = current]_vars

\* The last runnable process has faulted while traps and forks were still
\* allowed: the scheduler spins.
C24_Witness ==
    /\ kstate = "idle"
    /\ NoneRunnable
    /\ last = "INT_PAGEFAULT"
    /\ processes[current].p_state = "P_BROKEN"
    /\ quota.traps > 0
    /\ quota.forks > 0

\* ------------------------------------------------------ fork and sharing

\* The frames process pid maps in its user region without owning them.
ForeignFrames(pid) ==
    {MapOf(pid, vpn).pn : vpn \in {v \in UserVPages : /\ MapOf(pid, v).perm # 0
                                                      /\ pageinfo[MapOf(pid, v).pn].owner # pid}}

\* C25: after a fork the child's table maps no page of the user region to a
\* frame the parent mapped there without owning it.
C25_ForkDropsForeignPages ==
    [][\A child \in Forked : \A f \in ForeignFrames(current) :
          (kstate' # "panic" /\ processes'[child].p_pagetable # NULL) =>
             \A vpn \in UserVPages :
                MapOf(child, vpn)'.perm = 0 \/ MapOf(child, vpn)'.pn # f]_vars

\* The state the claim fails from: a forked process that shares the read-only
\* text frame of its parent runs and every allocation of its own fork will
\* succeed.
C25_ChildForksWithSharedText ==
    /\ kstate = "user"
    /\ current = 2
    /\ CheckOk
    /\ Cardinality(FreeFrames) >= FramesPerProc
    /\ quota.forks > 0
    /\ \E vpn \in UserVPages : /\ MapOf(2, vpn).perm = PTE_P + PTE_U
                               /\ pageinfo[MapOf(2, vpn).pn] = [owner |-> 1, refcount |-> 2]

\* The processes whose table holds a user-accessible mapping to frame pn.
UserMappers(pn) ==
    {p \in Pids : /\ processes[p].p_state # "P_FREE"
                  /\ \E vpn \in VPages : /\ MapOf(p, vpn).pn = pn
                                         /\ HasBit(MapOf(p, vpn).perm, PTE_U)}

\* The frames owned by a process that do not hold a page table.
ProcessDataFrames ==
    {pn \in Frames \ DOMAIN mem : pageinfo[pn].owner \in Pids \ {0} /\ pageinfo[pn].refcount > 0}

\* C26: in every state between interrupts the refcount of every frame owned
\* by a process (and not holding a page table) is the number of address
\* spaces with a user-accessible mapping to it.
C26_RefcountCountsMappings ==
    BetweenInterrupts =>
       \A pn \in ProcessDataFrames : pageinfo[pn].refcount = Cardinality(UserMappers(pn))

\* Process p maps frame pn at some virtual page with all the bits of perm.
MapsWith(p, pn, perm) ==
    /\ processes[p].p_state # "P_FREE"
    /\ \E vpn \in VPages : /\ MapOf(p, vpn).pn = pn
                           /\ HasBit(MapOf(p, vpn).perm, PTE_P)
                           /\ \A b \in perm : HasBit(MapOf(p, vpn).perm, b)

\* C27: in every state no frame owned by a process with refcount > 1 is
\* mapped both writable and user-accessible in the table of any process.
C27_SharedFramesReadOnly ==
    \A pn \in Frames :
       (pageinfo[pn].owner \in Pids \ {0} /\ pageinfo[pn].refcount > 1) =>
          \A p \in Pids : ~MapsWith(p, pn, {PTE_W, PTE_U})

\* A frame of refcount 2 is mapped user-accessible by its owner and by a
\* process a fork created.
C27_Witness ==
    /\ BetweenInterrupts
    /\ \E pn \in Frames :
          /\ pageinfo[pn].refcount = 2
          /\ pageinfo[pn].owner \in Pids \ {0}
          /\ MapsWith(pageinfo[pn].owner, pn, {PTE_U})
          /\ \E p \in Pids \ {pageinfo[pn].owner} :
                MapsWith(p, pn, {PTE_U}) /\ processes[p].p_registers.reg_eax = 0

\* ---------------------------------------------------------------- isolation

\* The virtual pages below the process region, the console page excepted.
KernelVPages == (0 .. (PROC_START_PN - 1)) \ {CONSOLE_PN}

\* C28: in every state between interrupts no process maps a page of the
\* kernel-reserved region other than the console user-accessible, and no
\* process maps, user-accessible and writable, a frame owned by the kernel or
\* by another process.
C28_KernelRegionProtected ==
    BetweenInterrupts =>
       \A p \in Pids :
          processes[p].p_state # "P_FREE" =>
             /\ \A vpn \in KernelVPages : ~HasBit(MapOf(p, vpn).perm, PTE_U)
             /\ \A vpn \in VPages :
                   (HasBit(MapOf(p, vpn).perm, PTE_U) /\ HasBit(MapOf(p, vpn).perm, PTE_W)) =>
                      /\ pageinfo[MapOf(p, vpn).pn].owner # PO_KERNEL
                      /\ pageinfo[MapOf(p, vpn).pn].owner \notin (Pids \ {0, p})

\* ---------------------------------------------------------------- fairness

\* The timer interrupt, with no bound on the number of interrupts; the counter
\* wraps.
TimerTurn ==
    /\ kstate = "user"
    /\ IF ~CheckOk
       THEN /\ kstate' = "panic"
            /\ UNCHANGED <<processes, current, ticks, owed>>
       ELSE /\ ticks' = (ticks + 1) % TickWrap
            /\ Schedule(processes)
            /\ UNCHANGED processes
    /\ last' = "INT_TIMER"
    /\ alloclog' = << >>
    /\ UNCHANGED <<io, pong, nproc, npages, pageinfo, mem, quota>>

\* The yield system call, with no bound on the number of calls.
YieldTurn ==
    /\ kstate = "user"
    /\ IF ~CheckOk
       THEN /\ kstate' = "panic"
            /\ UNCHANGED <<current, owed>>
       ELSE Schedule(processes)
    /\ last' = "INT_SYS_YIELD"
    /\ alloclog' = << >>
    /\ UNCHANGED <<io, pong, nproc, npages, pageinfo, mem, processes, ticks, quota>>

NextRR ==
    \/ TimerTurn
    \/ YieldTurn
    \/ PageFault

InitRR ==
    \E command \in {"fork", "default"}, rotext \in 0 .. 1 :
        Boot(NPROC, BuildPages, command, rotext, [traps |-> MaxFaults, forks |-> 0])

\* The pids start() puts to use.
RRPids == 1 .. 4

\* The timer keeps interrupting whatever process runs (timer_init(HZ)).
SpecRR == InitRR /\ [][NextRR]_vars /\ WF_vars(TimerTurn)

\* A trap has called schedule(), which has called run().
TurnStarts ==
    /\ last' \in {"INT_TIMER", "INT_SYS_YIELD", "INT_PAGEFAULT"}
    /\ CheckOk
    /\ kstate' = "user"

\* When schedule() gives a process a turn, no process is left that has been
\* runnable, without running, ever since the previous turn of that process.
TurnOrder == [][TurnStarts => owed[current'] \cap Runnable(processes') = {}]_vars

\* C29: while timer interrupts keep occurring (the kernel has not halted),
\* every process that stays runnable is eventually run, and when schedule()
\* gives a process its next turn every other process that has been runnable
\* since its previous turn has run in between.
C29_RoundRobinFair ==
    /\ \A p \in RRPids :
          (kstate = "user" /\ processes[p].p_state = "P_RUNNABLE")
             ~> \/ kstate = "panic"
                \/ processes[p].p_state # "P_RUNNABLE"
                \/ kstate = "user" /\ current = p
    /\ TurnOrder

\* Timer interrupts have taken the processor round three or more runnable
\* processes and back to process 1, past a broken process.
C29_Witness ==
    /\ last = "INT_TIMER"
    /\ kstate = "user"
    /\ current = 1
    /\ ticks = 0
    /\ Cardinality(Runnable(processes)) >= 3
    /\ owed[1] = Runnable(processes) \ {1}
    /\ \E p \in Runnable(processes) \ {1} : owed[p] # {} /\ 1 \notin owed[p]
    /\ \E p \in Pids : processes[p].p_state = "P_BROKEN"

\* No descriptor outside RRPids is ever in use in the round-robin
\* specification.
RRPidsCoverAll == \A p \in Pids \ RRPids : processes[p].p_state = "P_FREE"

\* ------------------------------------------------- src/pset6/pong61.c

\* The process has not called exit().
Running == pong.main \notin {"off", "exited"}

\* Worker t is at the statement named pc.
At(t, label) == Running /\ pong.pc[t] = label

\* Threads blocked in pthread_cond_wait(&stop_time_cond, &time_lock).
StopWaiters == {t \in Workers : pong.pc[t] \in {"stop_wait", "body_wait"}}

\* pthread_cond_broadcast(&stop_time_cond): every waiter leaves the wait and
\* goes for the mutex again.
Broadcast(pc) ==
    [t \in Workers |-> IF pc[t] = "stop_wait" THEN "stop_woken"
                       ELSE IF pc[t] = "body_wait" THEN "body_woken"
                       ELSE pc[t]]

\* main(): the loop head, pthread_create(&pt, NULL, pong_thread, &pa).
MainCreate ==
    /\ pong.main = "create"
    /\ \E t \in Workers :
           /\ pong.pc[t] = "none"
           /\ \A u \in Workers : u < t => pong.pc[u] # "none"
           /\ pong' = [pong EXCEPT !.main = "lock", !.pc[t] = "retry"]
    /\ UNCHANGED <<io, kvars>>

\* main(): pthread_mutex_lock(&mutex).
MainLock ==
    /\ pong.main = "lock"
    /\ pong.mutex = NoThread
    /\ pong' = [pong EXCEPT !.main = "wait", !.mutex = MainThread]
    /\ UNCHANGED <<io, kvars>>

\* main(): pthread_cond_wait(&condvar, &mutex) releases the mutex and blocks.
MainWait ==
    /\ pong.main = "wait"
    /\ pong' = [pong EXCEPT !.main = "waiting", !.mutex = NoThread]
    /\ UNCHANGED <<io, kvars>>

\* main(): signalled, pthread_cond_wait takes the mutex again and returns.
MainWoken ==
    /\ pong.main = "woken"
    /\ pong.mutex = NoThread
    /\ pong' = [pong EXCEPT !.main = "unlock", !.mutex = MainThread]
    /\ UNCHANGED <<io, kvars>>

\* main(): pthread_mutex_unlock(&mutex), the position update and the delay
\* before the next loop iteration.
MainUnlock ==
    /\ pong.main = "unlock"
    /\ pong' = [pong EXCEPT !.main = "create", !.mutex = NoThread]
    /\ UNCHANGED <<io, kvars>>

\* pong_thread, retry: under table_lock, take a finished connection from
\* conn_done_table or open a new one.
Retry(t) ==
    /\ At(t, "retry")
    /\ pong' = [pong EXCEPT !.pc[t] = "lock_time",
                            !.conn_done_num = IF @ > 0 THEN @ - 1 ELSE @]
    /\ UNCHANGED <<io, kvars>>

\* pthread_mutex_lock(&time_lock) before the request.
LockTime(t) ==
    /\ At(t, "lock_time")
    /\ pong.time_lock = NoThread
    /\ pong' = [pong EXCEPT !.pc[t] = "check_stop", !.time_lock = t]
    /\ UNCHANGED <<io, kvars>>

\* while(stop_time != 0) pthread_cond_wait(&stop_time_cond, &time_lock);
CheckStop(t) ==
    /\ At(t, "check_stop")
    /\ IF pong.stop_time # 0
       THEN pong' = [pong EXCEPT !.pc[t] = "stop_wait", !.time_lock = NoThread]
       ELSE pong' = [pong EXCEPT !.pc[t] = "unlock_time"]
    /\ UNCHANGED <<io, kvars>>

\* pthread_cond_wait returns to the loop above with the mutex held.
StopWoken(t) ==
    /\ At(t, "stop_woken")
    /\ pong.time_lock = NoThread
    /\ pong' = [pong EXCEPT !.pc[t] = "check_stop", !.time_lock = t]
    /\ UNCHANGED <<io, kvars>>

\* pthread_mutex_unlock(&time_lock) after the loop.
UnlockTime(t) ==
    /\ At(t, "unlock_time")
    /\ pong' = [pong EXCEPT !.pc[t] = "send", !.time_lock = NoThread]
    /\ UNCHANGED <<io, kvars>>

\* http_send_request(conn, url).
SendRequest(t) ==
    /\ At(t, "send")
    /\ pong' = [pong EXCEPT !.pc[t] = "recv_headers"]
    /\ UNCHANGED <<io, kvars>>

\* http_receive_response_headers(conn) and the loop after it: a connection
\* that broke before a status arrived is closed and the thread goes back to
\* retry after a delay; a status of 500 or more ends the process.
ReceiveHeaders(t) ==
    /\ At(t, "recv_headers")
    /\ \E outcome \in {"status", "broken", "overloaded"} :
           CASE outcome = "status" ->
                    pong' = [pong EXCEPT !.pc[t] = "signal"]
             [] outcome = "broken" ->
                    /\ pong.retries[t] < MaxRetries
                    /\ pong' = [pong EXCEPT !.pc[t] = "retry",
                                            !.retries[t] = @ + 1]
             [] outcome = "overloaded" ->
                    pong' = [pong EXCEPT !.main = "exited"]
    /\ UNCHANGED <<io, kvars>>

\* pthread_cond_signal(&condvar): wakes main if it is blocked in its wait, and
\* does nothing otherwise.
Signal(t) ==
    /\ At(t, "signal")
    /\ pong' = [pong EXCEPT !.pc[t] = "recv_body",
                            !.main = IF @ = "waiting" THEN "woken" ELSE @]
    /\ UNCHANGED <<io, kvars>>

\* http_receive_response_body(conn): body[t] is the number sscanf would read
\* from a "+N STOP" body, 0 for any other body.
ReceiveBody(t) ==
    /\ At(t, "recv_body")
    /\ \E n \in 0 .. MaxStop :
           pong' = [pong EXCEPT !.pc[t] = "lock_stop", !.body[t] = n]
    /\ UNCHANGED <<io, kvars>>

\* pthread_mutex_lock(&time_lock) after the body.
LockStop(t) ==
    /\ At(t, "lock_stop")
    /\ pong.time_lock = NoThread
    /\ pong' = [pong EXCEPT !.pc[t] = "stop_branch", !.time_lock = t]
    /\ UNCHANGED <<io, kvars>>

\* if(stop_time == 0 && sscanf(..., "+%d STOP", &stop_time) && stop_time != 0)
\* unlocks and sleeps; else if (stop_time != 0) waits on stop_time_cond; else
\* unlocks.
StopBranch(t) ==
    /\ At(t, "stop_branch")
    /\ IF pong.stop_time = 0 /\ pong.body[t] # 0
       THEN pong' = [pong EXCEPT !.pc[t] = "sleeping",
                                 !.stop_time = pong.body[t],
                                 !.time_lock = NoThread]
       ELSE IF pong.stop_time # 0
       THEN pong' = [pong EXCEPT !.pc[t] = "body_wait", !.time_lock = NoThread]
       ELSE pong' = [pong EXCEPT !.pc[t] = "finish", !.time_lock = NoThread]
    /\ UNCHANGED <<io, kvars>>

\* pthread_cond_wait in the else-if branch returns with the mutex held.
BodyWoken(t) ==
    /\ At(t, "body_woken")
    /\ pong.time_lock = NoThread
    /\ pong' = [pong EXCEPT !.pc[t] = "body_check", !.time_lock = t]
    /\ UNCHANGED <<io, kvars>>

\* The else-if branch: while(stop_time != 0) wait; then the thread's own body
\* is scanned into stop_time.
BodyCheck(t) ==
    /\ At(t, "body_check")
    /\ IF pong.stop_time # 0
       THEN pong' = [pong EXCEPT !.pc[t] = "body_wait", !.time_lock = NoThread]
       ELSE IF pong.body[t] # 0
       THEN pong' = [pong EXCEPT !.pc[t] = "sleeping",
                                 !.stop_time = pong.body[t],
                                 !.time_lock = NoThread]
       ELSE pong' = [pong EXCEPT !.pc[t] = "finish", !.time_lock = NoThread]
    /\ UNCHANGED <<io, kvars>>

\* The sleep of stop_time milliseconds ends: pthread_mutex_lock(&time_lock).
Sleeping(t) ==
    /\ At(t, "sleeping")
    /\ pong.time_lock = NoThread
    /\ pong' = [pong EXCEPT !.pc[t] = "wake", !.time_lock = t]
    /\ UNCHANGED <<io, kvars>>

\* stop_time = 0; pthread_cond_broadcast(&stop_time_cond); unlock.
Wake(t) ==
    /\ At(t, "wake")
    /\ pong' = [pong EXCEPT !.pc = [Broadcast(pong.pc) EXCEPT ![t] = "finish"],
                            !.stop_time = 0,
                            !.time_lock = NoThread]
    /\ UNCHANGED <<io, kvars>>

\* The end of pong_thread: a negative result in the body ends the process;
\* otherwise, under table_lock, the connection is stored in conn_done_table
\* or closed, and the thread exits.
Finish(t) ==
    /\ At(t, "finish")
    /\ \E outcome \in {"HTTP_DONE", "closed", "error"} :
           IF outcome = "error"
           THEN pong' = [pong EXCEPT !.main = "exited"]
           ELSE pong' = [pong EXCEPT !.pc[t] = "done",
                                     !.conn_done_num =
                                         IF outcome = "HTTP_DONE" /\ @ < 29
                                         THEN @ + 1 ELSE @]
    /\ UNCHANGED <<io, kvars>>

Worker(t) ==
    \/ Retry(t)
    \/ LockTime(t)
    \/ CheckStop(t)
    \/ StopWoken(t)
    \/ UnlockTime(t)
    \/ SendRequest(t)
    \/ ReceiveHeaders(t)
    \/ Signal(t)
    \/ ReceiveBody(t)
    \/ LockStop(t)
    \/ StopBranch(t)
    \/ BodyWoken(t)
    \/ BodyCheck(t)
    \/ Sleeping(t)
    \/ Wake(t)
    \/ Finish(t)

Main == MainCreate \/ MainLock \/ MainWait \/ MainWoken \/ MainUnlock

NextPong == Main \/ \E t \in Workers : Worker(t)

\* main() has initialised the mutexes and condition variables and enters its
\* loop; the kernel of pset4 is not part of this program.
InitPong ==
    /\ pong = [PongOff EXCEPT !.main = "create"]
    /\ io = IoOff
    /\ nproc = NPROC
    /\ npages = BuildPages
    /\ pageinfo = pageinfo_init
    /\ mem = KernelTables
    /\ processes = [i \in Pids |-> FreeProc]
    /\ current = 0
    /\ ticks = 0
    /\ kstate = "boot"
    /\ quota = [traps |-> 0, forks |-> 0]
    /\ last = "init"
    /\ alloclog = << >>
    /\ owed = [r \in Pids |-> {}]

SpecPong == InitPong /\ [][NextPong]_vars

\* The time_lock is held by the thread whose pc says so, and by no other.
HoldsTimeLock(t) ==
    pong.pc[t] \in {"check_stop", "unlock_time", "stop_branch", "body_check",
                    "wake"}

TimeLockOk ==
    \A t \in Workers : HoldsTimeLock(t) <=> pong.time_lock = t

\* C30: while stop_time is non-zero no worker thread sends a request: under
\* every interleaving of the pong_thread instances, http_send_request is
\* executed only while stop_time = 0.
C30_NoSendWhileStopped ==
    [][\A t \in Workers :
           (pong.pc[t] = "send" /\ pong'.pc[t] = "recv_headers")
               => pong.stop_time = 0]_vars

\* A worker is about to call http_send_request while another worker, which
\* read a STOP body, has set stop_time and sleeps.
C30_SendWhileStopped ==
    \E t \in Workers : \E u \in Workers \ {t} :
        /\ pong.pc[t] = "send"
        /\ pong.pc[u] = "sleeping"
        /\ pong.stop_time # 0

\* The operating system's scheduler eventually runs every thread that stays
\* able to take a step.
PongFair == WF_vars(Main) /\ \A t \in Workers : WF_vars(Worker(t))

SpecPongFair == InitPong /\ [][NextPong]_vars /\ PongFair

\* Statements of pong_thread after pthread_cond_signal(&condvar).
Signalled(t) ==
    pong.pc[t] \in {"recv_body", "lock_stop", "stop_branch", "body_wait",
                    "body_woken", "body_check", "sleeping", "wake", "finish",
                    "done"}

\* C31: the main loop always makes progress: after creating a worker thread,
\* the main thread's wait on condvar is eventually ended by the signal the
\* worker sends once it has received its response headers; the signal is
\* never lost and the main thread never blocks forever.
C31_MainWaitWoken ==
    (pong.main = "waiting") ~> (pong.main # "waiting")

\* The main thread is blocked in pthread_cond_wait and every worker it has
\* created has already called pthread_cond_signal: no signal is to come, and
\* the workers still to be created are created by the main thread only.
C31_SignalLost ==
    /\ pong.main = "waiting"
    /\ \E t \in Workers : pong.pc[t] # "none"
    /\ \E t \in Workers : pong.pc[t] = "none"
    /\ \A t \in Workers : pong.pc[t] # "none" => Signalled(t)

\* ------------------------------------------------- src/pset2/io61.c

\* Results of write(fd, p, n): the number of bytes taken, at least one of n
\* and possibly fewer, 0 for n = 0, or -1 for an error other than EINTR (on
\* EINTR io61_write calls write again, and nothing has changed).
SysWriteResults(n) == (IF n = 0 THEN {0} ELSE 1 .. n) \cup {0 - 1}

\* The descriptor after write(f->fd, f->bufptr, ...) took k bytes.
Delivered(f, k) ==
    f.out \o [i \in 1 .. (IF k > 0 THEN k ELSE 0) |-> f.buf[f.bufptr + i - 1]]

\* io61_flush(f), its write() returning r: the buffer, bufptr and towrite are
\* left as they are.
io61_flush(f, r) ==
    IF f.towrite > 0 THEN [f EXCEPT !.out = Delivered(f, r)] ELSE f

\* io61_write(f, buf, sz) for sz = Len(data) with f->seeked zero, r the
\* result of the write() in the branch taken when the data would overflow
\* the buffer.  The result is [f, ret]: the file and the value returned.
io61_write(f, data, r) ==
    LET sz == Len(data)
        full == f.bufptr + f.towrite + sz > BUFSIZE
        \* while (f->cnt <= 0) { f->cnt = write(...); ... }
        a == IF full /\ r > 0
             THEN [f EXCEPT !.out = Delivered(f, r),
                            !.bufptr = @ + r,
                            !.towrite = @ - r,
                            !.cnt = 0]
             ELSE f
        \* if (f->towrite <= 0) f->bufptr = f->buf;
        b == IF a.towrite <= 0 THEN [a EXCEPT !.bufptr = 0] ELSE a
        fits == b.bufptr + b.towrite + sz <= BUFSIZE
        \* memcpy(f->bufptr + f->towrite, buf, sz); f->towrite += sz;
        c == IF fits
             THEN [b EXCEPT !.buf = [i \in 0 .. BUFSIZE - 1 |->
                                        IF /\ i >= b.bufptr + b.towrite
                                           /\ i < b.bufptr + b.towrite + sz
                                        THEN data[i - (b.bufptr + b.towrite) + 1]
                                        ELSE b.buf[i]],
                            !.towrite = @ + sz]
             ELSE b
    IN  IF full /\ r < 0 THEN [f |-> [f EXCEPT !.cnt = r], ret |-> 0 - 1]
        ELSE IF full /\ r = 0 THEN [f |-> [f EXCEPT !.cnt = 0], ret |-> 0]
        ELSE [f |-> c, ret |-> IF fits THEN sz ELSE r]

\* The bytes of the next call: each call passes bytes no other call passes.
NewData(sz) == [i \in 1 .. sz |-> io.calls * (BUFSIZE + 2) + i]

\* The first n bytes of data (all of it when n is larger).
Reported(data, n) ==
    SubSeq(data, 1, IF n < 0 THEN 0 ELSE IF n > Len(data) THEN Len(data) ELSE n)

\* The file after a call of io61_write with data and r.
Written(data, r) ==
    LET w == io61_write(io, data, r)
        full == io.bufptr + io.towrite + Len(data) > BUFSIZE
    IN  [w.f EXCEPT !.written = @ \o Reported(data, w.ret),
                    !.calls = @ + 1,
                    !.failed = @ \/ (full /\ r < 0),
                    !.plain = /\ @
                              /\ Len(data) <= BUFSIZE
                              /\ full => r = io.towrite]

\* The results write() can have in io61_write(f, data, sz): it is called only
\* when the data would overflow the buffer.
WriteCallResults(sz) ==
    IF io.bufptr + io.towrite + sz > BUFSIZE
    THEN SysWriteResults(io.towrite)
    ELSE {0}

\* A call of io61_write(f, buf, sz).
IoWrite ==
    /\ io.state = "open"
    /\ io.calls < MaxIoCalls
    /\ \E sz \in WriteSizes \ {1} : \E r \in WriteCallResults(sz) :
           io' = Written(NewData(sz), r)
    /\ UNCHANGED <<pong, kvars>>

\* A call of io61_writec(f, ch): io61_write of one byte.
IoWritec ==
    /\ io.state = "open"
    /\ io.calls < MaxIoCalls
    /\ \E r \in WriteCallResults(1) : io' = Written(NewData(1), r)
    /\ UNCHANGED <<pong, kvars>>

\* A call of io61_flush(f).
IoFlush ==
    /\ io.state = "open"
    /\ io.calls < MaxIoCalls
    /\ \E r \in SysWriteResults(io.towrite) :
           io' = [io61_flush(io, r) EXCEPT
                      !.calls = @ + 1,
                      !.failed = @ \/ (io.towrite > 0 /\ r < 0),
                      !.plain = FALSE]
    /\ UNCHANGED <<pong, kvars>>

\* io61_close(f): io61_flush(f), close(f->fd), free(f).
IoClose ==
    /\ io.state = "open"
    /\ \E r \in SysWriteResults(io.towrite) :
           io' = [io61_flush(io, r) EXCEPT
                      !.state = "closed",
                      !.failed = @ \/ (io.towrite > 0 /\ r < 0),
                      !.plain = @ /\ (io.towrite > 0 => r = io.towrite)]
    /\ UNCHANGED <<pong, kvars>>

NextIo == IoWrite \/ IoWritec \/ IoFlush \/ IoClose

\* f = io61_fdopen(fd, O_WRONLY); the other programs are not running.
InitIo ==
    /\ io = IoFile
    /\ pong = PongOff
    /\ nproc = NPROC
    /\ npages = BuildPages
    /\ pageinfo = pageinfo_init
    /\ mem = KernelTables
    /\ processes = [i \in Pids |-> FreeProc]
    /\ current = 0
    /\ ticks = 0
    /\ kstate = "boot"
    /\ quota = [traps |-> 0, forks |-> 0]
    /\ last = "init"
    /\ alloclog = << >>
    /\ owed = [r \in Pids |-> {}]

SpecIo == InitIo /\ [][NextIo]_vars

\* The buffered bytes lie inside buf.
BufferInBounds ==
    /\ io.bufptr >= 0
    /\ io.towrite >= 0
    /\ io.bufptr + io.towrite <= BUFSIZE

\* C32: for any sequence of io61_write and io61_writec calls without seeks,
\* optionally interleaved with io61_flush and followed by io61_close, the
\* bytes delivered to the file descriptor are exactly the written data in
\* order, each byte once (a flush with no new data since the previous flush
\* writes nothing).  Runs in which the descriptor refused a write() are left
\* aside.
C32_CloseDeliversWrittenBytes ==
    (io.state = "closed" /\ ~io.failed) => io.out = io.written

\* A file closed after a flush, every write() complete and no call larger
\* than the buffer, whose descriptor received a byte twice.
C32_FlushedTwice ==
    /\ io.state = "closed"
    /\ ~io.failed
    /\ io.written = <<1>>
    /\ io.out = <<1, 1>>

\* Without io61_flush, with complete write()s and no call larger than the
\* buffer, the descriptor receives the written data.
C32_PlainRunsDeliver ==
    (io.state = "closed" /\ io.plain) => io.out = io.written

\* A plain run that filled the buffer more than once.
C32_PlainRunLong ==
    /\ io.state = "closed"
    /\ io.plain
    /\ Len(io.out) > BUFSIZE
====
